---- MODULE Spec2Model ----
(***************************************************************************)
(* SPoolJup (libs/s-jup-interface/src/lib.rs): the in-memory mirror of the *)
(* S controller pool, its refresh (Amm::update), the reconciliation of the *)
(* LST state list (update_lst_state_list) and the exact-in quote.          *)
(*                                                                         *)
(* Option<T> is a sequence of length <= 1: <<>> is None, <<x>> is Some(x). *)
(* Result<(), E> is the same: <<>> is Ok(()), <<e>> is Err(e).             *)
(* A fetched account is Option<Option<T>>: <<>> is "not in the account     *)
(* map", << <<>> >> is "present, bytes do not parse", << <<v>> >> parses   *)
(* to v.                                                                   *)
(***************************************************************************)
EXTENDS Integers, Sequences, FiniteSets, TLC

VARIABLES
    lp_mint_supply,          \* SPoolJup.lp_mint_supply: Option<u64>
    pool_state_account,      \* SPoolJup.pool_state_account: Option<PoolState>
    lst_state_list_account,  \* SPoolJup.lst_state_list_account, parsed: Seq(LstState)
    pricing_prog,            \* SPoolJup.pricing_prog: Option<KnownPricingProg>
    lst_data_list,           \* SPoolJup.lst_data_list: Seq(Option<LstData>)
    upd,                     \* record of the last update() call (input, intermediate values, result)
    quo,                     \* record of the last quote_swap_exact_in() call
    swp,                     \* record of the last swap_exact_in() / swap_exact_in_ix_full() call
    made                     \* record of the last constructor call

vars == <<lp_mint_supply, pool_state_account, lst_state_list_account,
          pricing_prog, lst_data_list, upd, quo, swp, made>>

mirror == <<lp_mint_supply, pool_state_account, lst_state_list_account,
            pricing_prog, lst_data_list>>

----------------------------------------------------------------------------
(* Bounds *)

MaxLst == 3      \* longest LST state list
MaxBal == 2      \* largest reserve balance and LP supply
MaxAmt == 4      \* largest quoted input amount

----------------------------------------------------------------------------
(* Option / Result *)

None == <<>>
Some(x) == <<x>>
IsSome(o) == o # <<>>
Unwrap(o) == o[1]

OkRes == <<>>
Err(kind, at) == << <<kind, at>> >>
IsErr(r) == r # <<>>

Absent == <<>>
Malformed == << <<>> >>
Fetched(v) == << <<v>> >>

Min(a, b) == IF a <= b THEN a ELSE b

\* Result::and - the first error wins, the second operand is already evaluated
ResAnd(res, curr) == IF IsErr(res) THEN res ELSE curr

----------------------------------------------------------------------------
(* Domains *)

Mints == {"A", "B", "C"}
CalcPrograms == {"SplCalc", "MarinadeCalc"}
KnownPricingPrograms == {"FlatFee", "FlatSlab"}
PricingPrograms == KnownPricingPrograms \cup {"UnknownPricing"}
LpMint == "LP"
GoodBump == "bump"
BadBump == "off_curve_bump"
Balances == 0..MaxBal

\* rate <<n, d>>: n reference units (lamports) per d native units
Rates == {<<1, 1>>, <<2, 1>>, <<1, 2>>}

\* LstState as last written on chain: its cached sol_value is 0 here
LstState(mint, calc, bump) ==
    [mint |-> mint, sol_value_calculator |-> calc, pool_reserves_bump |-> bump,
     sol_value |-> 0]

PoolState(pricing, fee_bps) ==
    [pricing_program |-> pricing, lp_token_mint |-> LpMint,
     trading_protocol_fee_bps |-> fee_bps, total_sol_value |-> 0]

RECURSIVE SeqsUpTo(_, _)
SeqsUpTo(S, n) ==
    IF n = 0 THEN {<<>>}
    ELSE LET shorter == SeqsUpTo(S, n - 1)
         IN  shorter \cup {Append(s, x) : s \in {t \in shorter : Len(t) = n - 1}, x \in S}

UniqueMints(l) == \A i, j \in 1..Len(l) : l[i].mint = l[j].mint => i = j

\* every LST state list of at most MaxLst entries with unique mints
LstStateLists ==
    {l \in SeqsUpTo({LstState(m, c, GoodBump) : m \in Mints, c \in CalcPrograms}, MaxLst) :
        UniqueMints(l)}

----------------------------------------------------------------------------
(* The external catalog (sanctum_lst_list) and try_lst_data *)

CalcProgramOf(pool) ==
    CASE pool = "Spl" -> "SplCalc"
      [] pool = "Marinade" -> "MarinadeCalc"
      [] OTHER -> "NoCalc"

SanctumLst(mint, pool, token_program) ==
    [mint |-> mint, pool |-> pool, token_program |-> token_program]

FullCatalog ==
    {SanctumLst("A", "Spl", "Token"), SanctumLst("B", "Marinade", "Token"),
     SanctumLst("C", "Spl", "Token2022")}

\* every catalog lists the Marinade family for its own mint only
Catalogs ==
    {FullCatalog,
     {s \in FullCatalog : s.mint # "C"},
     {s \in FullCatalog : s.mint # "C"} \cup {SanctumLst("C", "SPool", "Token")}}

\* KnownLstSolValCalc: identity (lst_mint, program id) and the cached rate
SolValCalc(mint, program) == [lst_mint |-> mint, program_id |-> program, rate |-> None]

\* the one mint of the Marinade family, whose calculator is built by default()
MarinadeMint == "B"

\* Lines 670-687: the Spl calculators are built from the list entry's mint, the
\* Marinade calculator from nothing: its mint is its family's
CalcOfPool(pool, mint) ==
    IF pool = "Marinade" THEN SolValCalc(MarinadeMint, CalcProgramOf(pool))
    ELSE SolValCalc(mint, CalcProgramOf(pool))

LstData(calc, reserves, token_program) ==
    [sol_val_calc |-> calc, reserves_balance |-> reserves, token_program |-> token_program]

try_lst_data(lst_list, lst_state) ==
    LET found == {s \in lst_list : s.mint = lst_state.mint}
    IN  IF found = {} THEN None
        ELSE LET s == CHOOSE x \in found : TRUE
             IN  IF s.pool = "SPool" THEN None
                 ELSE IF lst_state.sol_value_calculator # CalcProgramOf(s.pool) THEN None
                 ELSE Some(LstData(CalcOfPool(s.pool, lst_state.mint), None, s.token_program))

----------------------------------------------------------------------------
(* Pluggable capabilities *)

\* MutableLstSolValCalc::update: ingest the calculator's account from the map
CalcUpdate(calc, am) ==
    LET acc == am.calc[calc.lst_mint]
    IN  IF acc = Absent THEN [calc |-> calc, res |-> OkRes]
        ELSE IF acc = Malformed THEN [calc |-> calc, res |-> Err("CalcDecode", 0)]
        ELSE [calc |-> [calc EXCEPT !.rate = Some(Unwrap(Unwrap(acc)))], res |-> OkRes]

\* KnownPricingProg::try_new
TryNewPricingProg(program) ==
    IF program \in KnownPricingPrograms
    THEN Some([program_id |-> program, state |-> None])
    ELSE None

\* MutablePricingProg::update
PricingUpdate(pp, am) ==
    IF am.pricing = Absent THEN [pp |-> pp, res |-> OkRes]
    ELSE IF am.pricing = Malformed THEN [pp |-> pp, res |-> Err("PricingDecode", 0)]
    ELSE [pp |-> [pp EXCEPT !.state = Some(Unwrap(Unwrap(am.pricing)))], res |-> OkRes]

\* create_ata_address: fails when the stored bump is not a valid one
pool_reserves_account(lst_state, ld) ==
    IF lst_state.pool_reserves_bump = BadBump THEN None ELSE Some(lst_state.mint)

try_pricing_prog(pool_state, lst_state_list) ==
    TryNewPricingProg(pool_state.pricing_program)

----------------------------------------------------------------------------
(* Amm::update, lines 504-582 *)

\* a reserves account that does not parse clears the stored balance
UpdateLstDataAtClearing(i, am) ==
    IF lst_data_list[i] = None
    THEN [ld |-> None, res |-> OkRes, steps |-> <<>>, errs |-> <<>>]
    ELSE
        LET ld0 == Unwrap(lst_data_list[i])
            ata_res == pool_reserves_account(lst_state_list_account[i], ld0)
            r == CalcUpdate(ld0.sol_val_calc, am)
            ld1 == [ld0 EXCEPT !.sol_val_calc = r.calc]
            fetched == IF IsSome(ata_res) THEN am.reserves[Unwrap(ata_res)] ELSE Absent
            ld2 == IF IsSome(fetched)
                   THEN [ld1 EXCEPT !.reserves_balance = Unwrap(fetched)]
                   ELSE ld1
            bal_res == IF ata_res = None THEN Err("PubkeyError", i)
                       ELSE IF fetched = Malformed THEN Err("TokenAccountDecode", i)
                       ELSE OkRes
            calc_res == IF IsErr(r.res) THEN Err("CalcDecode", i) ELSE OkRes
        IN  [ld |-> Some(ld2),
             res |-> ResAnd(calc_res, bal_res),
             steps |-> << <<"sol_val_calc", i>>, <<"reserves", i>> >>,
             errs |-> calc_res \o bal_res]

\* The closure of lines 512-532 for index i: [ld, res, steps]
UpdateLstDataAt(i, am) ==
    IF lst_data_list[i] = None
    THEN [ld |-> None, res |-> OkRes, steps |-> <<>>, errs |-> <<>>]
    ELSE
        LET ld0 == Unwrap(lst_data_list[i])
            ata_res == pool_reserves_account(lst_state_list_account[i], ld0)
            r == CalcUpdate(ld0.sol_val_calc, am)
            ld1 == [ld0 EXCEPT !.sol_val_calc = r.calc]
            fetched == IF IsSome(ata_res) THEN am.reserves[Unwrap(ata_res)] ELSE Absent
            bal_parsed == IsSome(fetched) /\ IsSome(Unwrap(fetched))
            ld2 == IF bal_parsed
                   THEN [ld1 EXCEPT !.reserves_balance = Some(Unwrap(Unwrap(fetched)))]
                   ELSE ld1
            bal_res == IF ata_res = None THEN Err("PubkeyError", i)
                       ELSE IF fetched = Malformed THEN Err("TokenAccountDecode", i)
                       ELSE OkRes
            calc_res == IF IsErr(r.res) THEN Err("CalcDecode", i) ELSE OkRes
        IN  [ld |-> Some(ld2),
             res |-> ResAnd(calc_res, bal_res),
             steps |-> << <<"sol_val_calc", i>>, <<"reserves", i>> >>,
             errs |-> calc_res \o bal_res]

\* try_fold() instead of fold(): stop at the first failing index
RECURSIVE UpdateLstDataFromShortCircuit(_, _)
UpdateLstDataFromShortCircuit(i, am) ==
    IF i > Len(lst_data_list)
    THEN [list |-> <<>>, res |-> OkRes, steps |-> <<>>, errs |-> <<>>]
    ELSE LET head == UpdateLstDataAt(i, am)
         IN  IF IsErr(head.res)
             THEN [list |-> <<head.ld>> \o SubSeq(lst_data_list, i + 1, Len(lst_data_list)),
                   res |-> head.res, steps |-> head.steps, errs |-> head.errs]
             ELSE LET rest == UpdateLstDataFromShortCircuit(i + 1, am)
                  IN  [list |-> <<head.ld>> \o rest.list,
                       res |-> rest.res,
                       steps |-> head.steps \o rest.steps,
                       errs |-> rest.errs]

\* Lines 511-533: map over every index, then fold with Result::and
RECURSIVE UpdateLstDataFrom(_, _)
UpdateLstDataFrom(i, am) ==
    IF i > Len(lst_data_list)
    THEN [list |-> <<>>, res |-> OkRes, steps |-> <<>>, errs |-> <<>>]
    ELSE LET head == UpdateLstDataAt(i, am)
             rest == UpdateLstDataFrom(i + 1, am)
         IN  [list |-> <<head.ld>> \o rest.list,
              res |-> ResAnd(head.res, rest.res),
              steps |-> head.steps \o rest.steps,
              errs |-> head.errs \o rest.errs]

----------------------------------------------------------------------------
(* SPoolJup::update_lst_state_list, lines 348-414 *)

\* Lines 357-363: same length, same mint and same calculator program at every index
SameMintsAndCalcs(old_list, new_list) ==
    /\ Len(old_list) = Len(new_list)
    /\ \A i \in 1..Len(old_list) :
          /\ old_list[i].mint = new_list[i].mint
          /\ old_list[i].sol_value_calculator = new_list[i].sol_value_calculator

\* the search compares the mint alone
FindLstDataByMint(data_list, new_lst_state) ==
    LET hits == {k \in 1..Len(data_list) :
                    /\ IsSome(data_list[k])
                    /\ Unwrap(data_list[k]).sol_val_calc.lst_mint = new_lst_state.mint}
    IN  IF hits = {} THEN None
        ELSE data_list[CHOOSE k \in hits : \A h \in hits : k <= h]

\* Lines 379-390: the first Some(ld) of the old list bound to (mint, calculator program)
FindLstData(data_list, new_lst_state) ==
    LET hits == {k \in 1..Len(data_list) :
                    /\ IsSome(data_list[k])
                    /\ Unwrap(data_list[k]).sol_val_calc.lst_mint = new_lst_state.mint
                    /\ Unwrap(data_list[k]).sol_val_calc.program_id
                         = new_lst_state.sol_value_calculator}
    IN  IF hits = {} THEN None
        ELSE data_list[CHOOSE k \in hits : \A h \in hits : k <= h]

\* the binding of an unchanged mint is kept whatever the new calculator program
KeepWhateverCalc(old_lst_data, new_lst_state) ==
    old_lst_data

\* Lines 392-406: same mint: keep the binding only if its program is still the list's
KeepIfSameCalc(old_lst_data, new_lst_state) ==
    IF IsSome(old_lst_data)
       /\ Unwrap(old_lst_data).sol_val_calc.program_id = new_lst_state.sol_value_calculator
    THEN old_lst_data
    ELSE None

\* no search of the old list: the binding stays at its index
ReplacementByIndex(old_lst_state, old_lst_data, new_lst_state, data_list) ==
    KeepIfSameCalc(old_lst_data, new_lst_state)

\* Lines 378-407
Replacement(old_lst_state, old_lst_data, new_lst_state, data_list) ==
    IF old_lst_state.mint # new_lst_state.mint
    THEN FindLstData(data_list, new_lst_state)
    ELSE KeepIfSameCalc(old_lst_data, new_lst_state)

\* The four-way zip of lines 371-375 stops at the shortest of its sequences
ZipLen(old_list, data_list, new_list) ==
    Min(Min(Len(old_list), Len(data_list)), Len(new_list))

\* the new bindings are collected from the zip instead of written into
\* vec![None; new len]
RebuildLstDataListZipped(old_list, data_list, new_list) ==
    IF ZipLen(old_list, data_list, new_list) = 0 THEN <<>>
    ELSE [j \in 1..ZipLen(old_list, data_list, new_list) |->
            Replacement(old_list[j], data_list[j], new_list[j], data_list)]

\* every entry of the new list starts with a fresh calculator of its own
NewLstDataListFresh(new_list) ==
    IF new_list = <<>> THEN <<>>
    ELSE [j \in 1..Len(new_list) |->
            Some(LstData(SolValCalc(new_list[j].mint, new_list[j].sol_value_calculator),
                         None, "Token"))]

\* Line 370: vec![None; new_lst_state_list.len()]
NewLstDataList(new_list) ==
    IF new_list = <<>> THEN <<>>
    ELSE [j \in 1..Len(new_list) |-> None]

\* Lines 370-411: vec![None; new len], then the zipped for_each
RebuildLstDataList(old_list, data_list, new_list) ==
    IF new_list = <<>> THEN <<>>
    ELSE [j \in 1..Len(new_list) |->
            IF j <= ZipLen(old_list, data_list, new_list)
            THEN Replacement(old_list[j], data_list[j], new_list[j], data_list)
            ELSE NewLstDataList(new_list)[j]]

\* the fast path returns without storing the new account
FastPathSnapshotKept(old_list, data_list, new_list) ==
    [list |-> old_list, data |-> data_list, res |-> OkRes]

\* Lines 365-366: the fast path stores the new account and returns
FastPath(old_list, data_list, new_list) ==
    [list |-> new_list, data |-> data_list, res |-> OkRes]

\* the bindings are reset before the new account is parsed
update_lst_state_list_ResetFirst(old_list, data_list, new_acc) ==
    IF Unwrap(new_acc) = None
    THEN [list |-> old_list, data |-> [i \in 1..Len(data_list) |-> None],
          res |-> Err("LstStateListDecode", 0)]
    ELSE LET new_list == Unwrap(Unwrap(new_acc))
         IN  [list |-> new_list,
              data |-> RebuildLstDataList(old_list, data_list, new_list),
              res |-> OkRes]

\* [list, data, res] after update_lst_state_list(new account)
update_lst_state_list(old_list, data_list, new_acc) ==
    IF Unwrap(new_acc) = None
    THEN [list |-> old_list, data |-> data_list, res |-> Err("LstStateListDecode", 0)]
    ELSE LET new_list == Unwrap(Unwrap(new_acc))
         IN  IF SameMintsAndCalcs(old_list, new_list)
             THEN FastPath(old_list, data_list, new_list)
             ELSE [list |-> new_list,
                   data |-> RebuildLstDataList(old_list, data_list, new_list),
                   res |-> OkRes]

----------------------------------------------------------------------------
(* Amm::update, the steps after the per-LST fold *)

\* Lines 535-537: [pp, res, steps, errs]
UpdatePricingProg(pp_opt, am) ==
    IF pp_opt = None
    THEN [pp |-> None, res |-> OkRes, steps |-> <<>>, errs |-> <<>>]
    ELSE LET u == PricingUpdate(Unwrap(pp_opt), am)
         IN  [pp |-> Some(u.pp), res |-> u.res,
              steps |-> << <<"pricing_prog", 0>> >>, errs |-> u.res]

\* Lines 543-545: [list, data, res, steps, errs]
UpdateLstStateListStep(old_list, data_list, am) ==
    IF am.lst_state_list = Absent
    THEN [list |-> old_list, data |-> data_list, res |-> OkRes,
          steps |-> <<>>, errs |-> <<>>]
    ELSE LET u == update_lst_state_list(old_list, data_list, am.lst_state_list)
         IN  [list |-> u.list, data |-> u.data, res |-> u.res,
              steps |-> << <<"lst_state_list", 0>> >>, errs |-> u.res]

\* a try_pricing_prog error leaves the bound pricing program in place
ReinitPricingProgKeptOnError(old_ps_opt, pp_opt, ps, list, am) ==
    IF IsSome(old_ps_opt) /\ Unwrap(old_ps_opt).pricing_program # ps.pricing_program
    THEN LET created == try_pricing_prog(ps, list)
         IN  IF created = None
             THEN [pp |-> pp_opt, r |-> OkRes,
                   steps |-> << <<"try_pricing_prog", 0>> >>,
                   errs |-> Err("UnknownPricingProg", 0)]
             ELSE LET u == PricingUpdate(Unwrap(created), am)
                  IN  [pp |-> Some(u.pp), r |-> u.res,
                       steps |-> << <<"try_pricing_prog", 0>>, <<"new_pricing_prog", 0>> >>,
                       errs |-> u.res]
    ELSE [pp |-> pp_opt, r |-> OkRes, steps |-> <<>>, errs |-> <<>>]

\* Lines 554-564: the pricing program is rebuilt only when an old pool state
\* exists and names another pricing program; a try_pricing_prog error is
\* dropped by .ok()
ReinitPricingProg(old_ps_opt, pp_opt, ps, list, am) ==
    IF IsSome(old_ps_opt) /\ Unwrap(old_ps_opt).pricing_program # ps.pricing_program
    THEN LET created == try_pricing_prog(ps, list)
         IN  IF created = None
             THEN [pp |-> None, r |-> OkRes,
                   steps |-> << <<"try_pricing_prog", 0>> >>,
                   errs |-> Err("UnknownPricingProg", 0)]
             ELSE LET u == PricingUpdate(Unwrap(created), am)
                  IN  [pp |-> Some(u.pp), r |-> u.res,
                       steps |-> << <<"try_pricing_prog", 0>>, <<"new_pricing_prog", 0>> >>,
                       errs |-> u.res]
    ELSE [pp |-> pp_opt, r |-> OkRes, steps |-> <<>>, errs |-> <<>>]

\* Lines 547-569: [pool, pp, res, steps, errs]
UpdatePoolState(old_ps_opt, pp_opt, list, am) ==
    IF am.pool_state = Absent
    THEN [pool |-> old_ps_opt, pp |-> pp_opt, res |-> OkRes, steps |-> <<>>, errs |-> <<>>]
    ELSE IF am.pool_state = Malformed
    THEN [pool |-> old_ps_opt, pp |-> pp_opt, res |-> Err("PoolStateDecode", 0),
          steps |-> << <<"pool_state", 0>> >>, errs |-> Err("PoolStateDecode", 0)]
    ELSE LET ps == Unwrap(Unwrap(am.pool_state))
             re == ReinitPricingProg(old_ps_opt, pp_opt, ps, list, am)
         IN  [pool |-> Some(ps), pp |-> re.pp, res |-> re.r,
              steps |-> << <<"pool_state", 0>> >> \o re.steps
                            \o << <<"pool_state_account", 0>> >>,
              errs |-> re.errs]

\* Lines 572-579: [supply, res, steps, errs]
UpdateLpMintSupply(ps_opt, supply, am) ==
    IF ps_opt = None \/ am.lp_mint = Absent
    THEN [supply |-> supply, res |-> OkRes, steps |-> <<>>, errs |-> <<>>]
    ELSE IF am.lp_mint = Malformed
    THEN [supply |-> supply, res |-> Err("MintDecode", 0),
          steps |-> << <<"lp_mint_supply", 0>> >>, errs |-> Err("MintDecode", 0)]
    ELSE [supply |-> Some(Unwrap(Unwrap(am.lp_mint))), res |-> OkRes,
          steps |-> << <<"lp_mint_supply", 0>> >>, errs |-> <<>>]

NoUpd == [called |-> FALSE]
NoQuo == [called |-> FALSE]
NoSwp == [called |-> FALSE]
NoMade == [called |-> FALSE]

\* list and pool state first, then the pricing program, then the LP supply
UpdateStepsListFirst(s1, s2, s3, s4, s5) ==
    s1.steps \o s3.steps \o s4.steps \o s2.steps \o s5.steps

\* the order of the statements of lines 511-579
UpdateSteps(s1, s2, s3, s4, s5) ==
    s1.steps \o s2.steps \o s3.steps \o s4.steps \o s5.steps

\* Amm::update(account_map)
Update(am) ==
    LET s1 == UpdateLstDataFrom(1, am)
        s2 == UpdatePricingProg(pricing_prog, am)
        s3 == UpdateLstStateListStep(lst_state_list_account, s1.list, am)
        s4 == UpdatePoolState(pool_state_account, s2.pp, s3.list, am)
        s5 == UpdateLpMintSupply(s4.pool, lp_mint_supply, am)
        res == ResAnd(ResAnd(ResAnd(ResAnd(s1.res, s2.res), s3.res), s4.res), s5.res)
    IN  /\ lst_data_list' = s3.data
        /\ lst_state_list_account' = s3.list
        /\ pool_state_account' = s4.pool
        /\ pricing_prog' = s4.pp
        /\ lp_mint_supply' = s5.supply
        /\ upd' = [called |-> TRUE,
                   am |-> am,
                   old_list |-> lst_state_list_account,
                   old_data |-> lst_data_list,
                   old_pool |-> pool_state_account,
                   old_pp |-> pricing_prog,
                   old_supply |-> lp_mint_supply,
                   synced_data |-> s1.list,
                   synced_pp |-> s2.pp,
                   steps |-> UpdateSteps(s1, s2, s3, s4, s5),
                   errs |-> s1.errs \o s2.errs \o s3.errs \o s4.errs \o s5.errs,
                   res |-> res]
        /\ quo' = NoQuo
        /\ swp' = NoSwp
        /\ made' = NoMade

----------------------------------------------------------------------------
(* SPoolJup::quote_swap_exact_in, lines 195-265 *)

\* LstSolValCalc::lst_to_sol(amount).get_min(): None is Err (rate not ingested)
lst_to_sol(calc, amount) ==
    IF calc.rate = None THEN None
    ELSE Some((amount * Unwrap(calc.rate)[1]) \div Unwrap(calc.rate)[2])

\* LstSolValCalc::sol_to_lst(sol value).get_min()
sol_to_lst(calc, sol_value) ==
    IF calc.rate = None THEN None
    ELSE Some((sol_value * Unwrap(calc.rate)[2]) \div Unwrap(calc.rate)[1])

\* PricingProg::quote_exact_in: the answer of the pricing policy is an input
\* of the quote (priced); a program whose accounts were never ingested fails
PricingQuoteExactIn(pp, priced) == IF pp.state = None THEN None ELSE priced

\* Lines 335-346: [err, i]; i indexes lst_state_list and lst_data_list
find_ready_lst(lst_mint) ==
    LET hits == {i \in 1..Min(Len(lst_state_list_account), Len(lst_data_list)) :
                    lst_state_list_account[i].mint = lst_mint}
    IN  IF hits = {} THEN [err |-> "LstNotOnList", i |-> 0]
        ELSE LET i == CHOOSE k \in hits : \A h \in hits : k <= h
             IN  IF lst_data_list[i] = None
                 THEN [err |-> "LstNotSupported", i |-> i]
                 ELSE [err |-> "", i |-> i]

\* sync_sol_value_with_retval: total_sol_value - old sol_value + new sol_value
sync_sol_value_with_retval(pool_state, lst_state, ret_sol_val) ==
    IF pool_state.total_sol_value < lst_state.sol_value
    THEN [err |-> "MathError", pool_state |-> pool_state, lst_state |-> lst_state]
    ELSE [err |-> "",
          pool_state |-> [pool_state EXCEPT !.total_sol_value =
                             pool_state.total_sol_value - lst_state.sol_value + ret_sol_val],
          lst_state |-> [lst_state EXCEPT !.sol_value = ret_sol_val]]

\* an unfetched reserve balance read as 0 (unwrap_or_default)
apply_sync_sol_value_OrDefault(pool_state, lst_state, lst_data) ==
    LET reserves_balance == IF lst_data.reserves_balance = None THEN 0
                            ELSE Unwrap(lst_data.reserves_balance)
        ret_sol_val == lst_to_sol(lst_data.sol_val_calc, reserves_balance)
    IN  IF ret_sol_val = None
        THEN [err |-> "CalcError", pool_state |-> pool_state,
              lst_state |-> lst_state, reserves_balance |-> reserves_balance]
        ELSE LET synced == sync_sol_value_with_retval(pool_state, lst_state,
                                                      Unwrap(ret_sol_val))
             IN  [err |-> synced.err, pool_state |-> synced.pool_state,
                  lst_state |-> synced.lst_state,
                  reserves_balance |-> reserves_balance]

\* Lines 630-645: [err, pool_state, lst_state, reserves_balance]
apply_sync_sol_value(pool_state, lst_state, lst_data) ==
    IF lst_data.reserves_balance = None
    THEN [err |-> "ReservesNotFetched", pool_state |-> pool_state,
          lst_state |-> lst_state, reserves_balance |-> 0]
    ELSE LET reserves_balance == Unwrap(lst_data.reserves_balance)
             ret_sol_val == lst_to_sol(lst_data.sol_val_calc, reserves_balance)
         IN  IF ret_sol_val = None
             THEN [err |-> "CalcError", pool_state |-> pool_state,
                   lst_state |-> lst_state, reserves_balance |-> reserves_balance]
             ELSE LET synced == sync_sol_value_with_retval(pool_state, lst_state,
                                                           Unwrap(ret_sol_val))
                  IN  [err |-> synced.err, pool_state |-> synced.pool_state,
                       lst_state |-> synced.lst_state,
                       reserves_balance |-> reserves_balance]

\* calc_swap_protocol_fees: the protocol's share (bps) of the sol value kept
\* by the pool, converted to the output LST at dst_lst_out / out_sol_value
calc_swap_protocol_fees(in_sol_value, out_sol_value, dst_lst_out, trading_protocol_fee_bps) ==
    LET fees_sol_value == IF in_sol_value > out_sol_value
                          THEN in_sol_value - out_sol_value ELSE 0
        to_protocol == (fees_sol_value * trading_protocol_fee_bps) \div 10000
    IN  IF out_sol_value = 0 THEN None
        ELSE Some((to_protocol * dst_lst_out) \div out_sol_value)

\* the fee is divided by the amount after the fee
calc_quote_fees_OverAmtAfterFee(in_sol_value, out_sol_value, sol_val_calc) ==
    LET fee_amount_sol == in_sol_value - out_sol_value
        fee_amount == sol_to_lst(sol_val_calc, fee_amount_sol)
    IN  IF out_sol_value = 0 \/ out_sol_value > in_sol_value \/ fee_amount = None
        THEN None
        ELSE Some([fee_amount |-> Unwrap(fee_amount),
                   fee_pct |-> <<fee_amount_sol, out_sol_value>>])

\* Lines 612-626: Some([fee_amount, fee_pct]); fee_pct is the fraction <<num, denom>>
calc_quote_fees(in_sol_value, out_sol_value, sol_val_calc) ==
    LET fee_amount_sol == in_sol_value - out_sol_value
        fee_amount == sol_to_lst(sol_val_calc, fee_amount_sol)
    IN  IF in_sol_value = 0 \/ out_sol_value > in_sol_value \/ fee_amount = None
        THEN None
        ELSE Some([fee_amount |-> Unwrap(fee_amount),
                   fee_pct |-> <<fee_amount_sol, in_sol_value>>])

QuoteErr(err, in_sol_value, out_sol_value, dst_lst_out) ==
    [err |-> err, quote |-> None, in_sol_value |-> in_sol_value,
     out_sol_value |-> out_sol_value, dst_lst_out |-> dst_lst_out,
     to_protocol_fees_lst_amount |-> None]

\* the protocol's fee is left out of the comparison
NotEnoughLiquidityFeeLeftOut(dst_lst_out, to_protocol_fees_lst_amount, output_reserves_balance) ==
    dst_lst_out > output_reserves_balance

\* Lines 247-250: total_dst_lst_out > output_reserves_balance
NotEnoughLiquidity(dst_lst_out, to_protocol_fees_lst_amount, output_reserves_balance) ==
    dst_lst_out + to_protocol_fees_lst_amount > output_reserves_balance

\* Lines 241-264, once both amounts are known to be non-zero
QuoteFromAmounts(amount, output_mint, pool_state, output_lst_data, output_reserves_balance, in_sol_value, out_sol_value, dst_lst_out) ==
    LET fees == calc_swap_protocol_fees(in_sol_value, out_sol_value, dst_lst_out,
                                        pool_state.trading_protocol_fee_bps)
        quote_fees == calc_quote_fees(in_sol_value, out_sol_value,
                                      output_lst_data.sol_val_calc)
    IN  IF fees = None
        THEN QuoteErr("MathError", Some(in_sol_value), Some(out_sol_value), Some(dst_lst_out))
        ELSE IF quote_fees = None
        THEN QuoteErr("QuoteFeesError", Some(in_sol_value), Some(out_sol_value),
                      Some(dst_lst_out))
        ELSE [err |-> "",
              quote |-> Some([not_enough_liquidity |->
                                  NotEnoughLiquidity(dst_lst_out, Unwrap(fees),
                                                     output_reserves_balance),
                              in_amount |-> amount,
                              out_amount |-> dst_lst_out,
                              fee_mint |-> output_mint,
                              fee_amount |-> Unwrap(quote_fees).fee_amount,
                              fee_pct |-> Unwrap(quote_fees).fee_pct]),
              in_sol_value |-> Some(in_sol_value),
              out_sol_value |-> Some(out_sol_value),
              dst_lst_out |-> Some(dst_lst_out),
              to_protocol_fees_lst_amount |-> fees]

\* the operands of the comparison swapped
PoolWouldLoseSolValueSwapped(in_sol_value, out_sol_value) == in_sol_value > out_sol_value

\* an output sol value equal to the input's is refused too
PoolWouldLoseSolValueOrEqual(in_sol_value, out_sol_value) == out_sol_value >= in_sol_value

\* Line 231
PoolWouldLoseSolValue(in_sol_value, out_sol_value) == out_sol_value > in_sol_value

\* an unsigned amount is never below zero
IsZeroValueSigned(value) == value < 0

\* Lines 218 and 238
IsZeroValue(value) == value = 0

\* Lines 217-240: the conversions and their checks
QuoteFromSynced(amount, input_mint, output_mint, pool_state, input_lst_data, output_lst_data, output_reserves_balance, priced) ==
    LET in_sol == lst_to_sol(input_lst_data.sol_val_calc, amount)
    IN  IF in_sol = None THEN QuoteErr("CalcError", None, None, None)
        ELSE IF IsZeroValue(Unwrap(in_sol)) THEN QuoteErr("ZeroValue", in_sol, None, None)
        ELSE LET out_sol == PricingQuoteExactIn(Unwrap(pricing_prog), priced)
             IN  IF out_sol = None THEN QuoteErr("PricingError", in_sol, None, None)
                 ELSE IF PoolWouldLoseSolValue(Unwrap(in_sol), Unwrap(out_sol))
                 THEN QuoteErr("PoolWouldLoseSolValue", in_sol, out_sol, None)
                 ELSE LET dst == sol_to_lst(output_lst_data.sol_val_calc, Unwrap(out_sol))
                      IN  IF dst = None THEN QuoteErr("CalcError", in_sol, out_sol, None)
                          ELSE IF IsZeroValue(Unwrap(dst))
                          THEN QuoteErr("ZeroValue", in_sol, out_sol, dst)
                          ELSE QuoteFromAmounts(amount, output_mint, pool_state,
                                                output_lst_data, output_reserves_balance,
                                                Unwrap(in_sol), Unwrap(out_sol), Unwrap(dst))

\* Lines 204-215, then the rest: [err, quote, in_sol_value, out_sol_value, dst_lst_out]
quote_swap_exact_in(amount, input_mint, output_mint, priced) ==
    IF pool_state_account = None THEN QuoteErr("PoolStateNotFetched", None, None, None)
    ELSE IF pricing_prog = None THEN QuoteErr("PricingProgNotFetched", None, None, None)
    ELSE LET input == find_ready_lst(input_mint)
         IN  IF input.err # "" THEN QuoteErr(input.err, None, None, None)
             ELSE LET input_lst_data == Unwrap(lst_data_list[input.i])
                      sync_in == apply_sync_sol_value(Unwrap(pool_state_account),
                                                      lst_state_list_account[input.i],
                                                      input_lst_data)
                  IN  IF sync_in.err # "" THEN QuoteErr(sync_in.err, None, None, None)
                      ELSE LET output == find_ready_lst(output_mint)
                           IN  IF output.err # "" THEN QuoteErr(output.err, None, None, None)
                               ELSE LET output_lst_data == Unwrap(lst_data_list[output.i])
                                        sync_out == apply_sync_sol_value(
                                                        sync_in.pool_state,
                                                        lst_state_list_account[output.i],
                                                        output_lst_data)
                                    IN  IF sync_out.err # ""
                                        THEN QuoteErr(sync_out.err, None, None, None)
                                        ELSE QuoteFromSynced(amount, input_mint, output_mint,
                                                             sync_out.pool_state,
                                                             input_lst_data, output_lst_data,
                                                             sync_out.reserves_balance, priced)

\* the synced pool state and input LST state are written back to the mirror
QuoteSwapExactInCommitting(amount, input_mint, output_mint, priced) ==
    LET r == quote_swap_exact_in(amount, input_mint, output_mint, priced)
        input == find_ready_lst(input_mint)
        synced == IF IsSome(pool_state_account) /\ input.err = ""
                  THEN apply_sync_sol_value(Unwrap(pool_state_account),
                                            lst_state_list_account[input.i],
                                            Unwrap(lst_data_list[input.i]))
                  ELSE [err |-> "NotSynced"]
    IN  /\ quo' = [called |-> TRUE, amount |-> amount, input_mint |-> input_mint,
                   output_mint |-> output_mint, priced |-> priced,
                   err |-> r.err, quote |-> r.quote, in_sol_value |-> r.in_sol_value,
                   out_sol_value |-> r.out_sol_value, dst_lst_out |-> r.dst_lst_out,
                   to_protocol_fees_lst_amount |-> r.to_protocol_fees_lst_amount]
        /\ upd' = NoUpd
        /\ swp' = NoSwp
        /\ made' = NoMade
        /\ IF synced.err = ""
           THEN /\ pool_state_account' = Some(synced.pool_state)
                /\ lst_state_list_account' =
                      [lst_state_list_account EXCEPT ![input.i] = synced.lst_state]
                /\ UNCHANGED <<lp_mint_supply, pricing_prog, lst_data_list>>
           ELSE UNCHANGED mirror

\* one call of quote_swap_exact_in: the mirror is only read
QuoteSwapExactIn(amount, input_mint, output_mint, priced) ==
    LET r == quote_swap_exact_in(amount, input_mint, output_mint, priced)
    IN  /\ quo' = [called |-> TRUE, amount |-> amount, input_mint |-> input_mint,
                   output_mint |-> output_mint, priced |-> priced,
                   err |-> r.err, quote |-> r.quote, in_sol_value |-> r.in_sol_value,
                   out_sol_value |-> r.out_sol_value, dst_lst_out |-> r.dst_lst_out,
                   to_protocol_fees_lst_amount |-> r.to_protocol_fees_lst_amount]
        /\ upd' = NoUpd
        /\ swp' = NoSwp
        /\ made' = NoMade
        /\ UNCHANGED mirror

----------------------------------------------------------------------------
(* Instruction assembly:                                                    *)
(* libs/s-controller-lib/src/instructions/swap_exact_in.rs                  *)
(*                                                                         *)
(* An unsigned integer of n bytes is the sequence of its n bytes, least     *)
(* significant first: a usize has 8 bytes, a u32 has 4, a u64 has 8.       *)

RECURSIVE LeBytes(_, _)
LeBytes(v, n) == IF n = 0 THEN <<>> ELSE <<v % 256>> \o LeBytes(v \div 256, n - 1)

RECURSIVE LeValue(_)
LeValue(bytes) == IF bytes = <<>> THEN 0 ELSE bytes[1] + 256 * LeValue(Tail(bytes))

\* u32::try_from(usize): fails when one of the four high bytes is not zero
index_to_u32(index) ==
    IF SubSeq(index, 5, 8) = <<0, 0, 0, 0>>
    THEN [err |-> "", v |-> SubSeq(index, 1, 4)]
    ELSE [err |-> "Overflow", v |-> <<>>]

SwapExactInIxArgs(src_accs, dst_accs, src_lst_index, dst_lst_index, min_amount_out, amount) ==
    [src_lst_value_calc_accs |-> src_accs, dst_lst_value_calc_accs |-> dst_accs,
     src_lst_index |-> src_lst_index, dst_lst_index |-> dst_lst_index,
     min_amount_out |-> min_amount_out, amount |-> amount]

\* the fixed header: two 32-bit counts, two 32-bit indices, two 64-bit amounts
SerializeSwapExactInIxData(args) ==
    args.src_lst_value_calc_accs \o args.dst_lst_value_calc_accs
        \o args.src_lst_index \o args.dst_lst_index
        \o LeBytes(args.min_amount_out, 8) \o LeBytes(args.amount, 8)

\* what a reader of the instruction decodes from the header
DeserializeSwapExactInIxData(data) ==
    [src_lst_value_calc_accs |-> LeValue(SubSeq(data, 1, 4)),
     dst_lst_value_calc_accs |-> LeValue(SubSeq(data, 5, 8)),
     src_lst_index |-> SubSeq(data, 9, 12),
     dst_lst_index |-> SubSeq(data, 13, 16),
     min_amount_out |-> LeValue(SubSeq(data, 17, 24)),
     amount |-> LeValue(SubSeq(data, 25, 32))]

\* s_controller_interface::swap_exact_in_ix: the base accounts and the header
swap_exact_in_ix(accounts, args) ==
    [accounts |-> accounts, data |-> SerializeSwapExactInIxData(args)]

\* appends the input calculator's accounts, then the output calculator's,
\* and returns the two counts as 32-bit values
ix_extend_with_src_dst_sol_value_calculator_accounts(ix, sol_val_calc_accounts) ==
    LET src == sol_val_calc_accounts.src_lst_calculator_accounts
        dst == sol_val_calc_accounts.dst_lst_calculator_accounts
        src_lst == index_to_u32(LeBytes(Len(src), 8))
        dst_lst == index_to_u32(LeBytes(Len(dst), 8))
    IN  IF src_lst.err # "" \/ dst_lst.err # ""
        THEN [err |-> "TryFromIntError", ix |-> ix, src_lst |-> <<>>, dst_lst |-> <<>>]
        ELSE [err |-> "", ix |-> [ix EXCEPT !.accounts = @ \o src \o dst],
              src_lst |-> src_lst.v, dst_lst |-> dst_lst.v]

\* appends the pricing program's id as an account, then its accounts
ix_extend_with_pricing_program_price_swap_accounts(ix, pricing_program_accounts, pricing_program_id) ==
    [err |-> "",
     ix |-> [ix EXCEPT !.accounts = @ \o <<pricing_program_id>> \o pricing_program_accounts]]

\* the index is cast (as u32) instead of converted
IndexesToU32Truncating(src_lst_index, dst_lst_index) ==
    [err |-> "", src |-> SubSeq(src_lst_index, 1, 4), dst |-> SubSeq(dst_lst_index, 1, 4),
     steps |-> <<"index_to_u32", "index_to_u32">>]

\* Lines 37-38: [err, src, dst, steps]
IndexesToU32(src_lst_index, dst_lst_index) ==
    LET src == index_to_u32(src_lst_index)
        dst == index_to_u32(dst_lst_index)
    IN  IF src.err # ""
        THEN [err |-> src.err, src |-> <<>>, dst |-> <<>>, steps |-> <<"index_to_u32">>]
        ELSE IF dst.err # ""
        THEN [err |-> dst.err, src |-> src.v, dst |-> <<>>,
              steps |-> <<"index_to_u32", "index_to_u32">>]
        ELSE [err |-> "", src |-> src.v, dst |-> dst.v,
              steps |-> <<"index_to_u32", "index_to_u32">>]

\* the pricing program's accounts are appended before the calculators'
ExtendWithVariableAccountsPricingFirst(ix, sol_val_calc_accounts, pricing_program_accounts, pricing_program_id) ==
    LET pricing == ix_extend_with_pricing_program_price_swap_accounts(
                       ix, pricing_program_accounts, pricing_program_id)
        calc == ix_extend_with_src_dst_sol_value_calculator_accounts(
                    pricing.ix, sol_val_calc_accounts)
    IN  [err |-> IF calc.err # "" THEN "MathError" ELSE "", ix |-> calc.ix,
         src_lst |-> calc.src_lst, dst_lst |-> calc.dst_lst,
         steps |-> <<"extend_pricing_program", "extend_sol_value_calculators">>]

\* Lines 50-60: [err, ix, src_lst, dst_lst, steps]
ExtendWithVariableAccounts(ix, sol_val_calc_accounts, pricing_program_accounts, pricing_program_id) ==
    LET calc == ix_extend_with_src_dst_sol_value_calculator_accounts(ix, sol_val_calc_accounts)
    IN  IF calc.err # ""
        THEN [err |-> "MathError", ix |-> calc.ix, src_lst |-> <<>>, dst_lst |-> <<>>,
              steps |-> <<"extend_sol_value_calculators">>]
        ELSE LET pricing == ix_extend_with_pricing_program_price_swap_accounts(
                                calc.ix, pricing_program_accounts, pricing_program_id)
             IN  [err |-> IF pricing.err # "" THEN "MathError" ELSE "",
                  ix |-> pricing.ix, src_lst |-> calc.src_lst, dst_lst |-> calc.dst_lst,
                  steps |-> <<"extend_sol_value_calculators", "extend_pricing_program">>]

\* the header is left as first written, with both counts zero
OverwriteHeaderSkipped(ix, args) == Some(ix)

\* Lines 62-71: serialize into &mut ix.data[..]: the bytes replace the front of
\* the data, whose length stays; fails when the data is shorter than the bytes
OverwriteHeader(ix, args) ==
    LET bytes == SerializeSwapExactInIxData(args)
    IN  IF Len(bytes) > Len(ix.data) THEN None
        ELSE Some([ix EXCEPT !.data = [k \in 1..Len(ix.data) |->
                                          IF k <= Len(bytes) THEN bytes[k] ELSE ix.data[k]]])

IxErr(err, steps) == [err |-> err, ix |-> None, first_pass |-> None, steps |-> steps]

\* the header is re-encoded from the two counts alone
SecondPassArgsCountsOnly(ext, idx, min_amount_out, amount) ==
    SwapExactInIxArgs(ext.src_lst, ext.dst_lst, LeBytes(0, 4), LeBytes(0, 4), 0, 0)

\* Lines 63-70: the header of the second pass: the counts returned by the
\* extension, the converted indices and the caller's amounts
SecondPassArgs(ext, idx, min_amount_out, amount) ==
    SwapExactInIxArgs(ext.src_lst, ext.dst_lst, idx.src, idx.dst, min_amount_out, amount)

\* swap_exact_in_ix_full, lines 25-73: [err, ix, steps]
swap_exact_in_ix_full(accounts, src_lst_index, dst_lst_index, min_amount_out, amount, sol_val_calc_accounts, pricing_program_accounts, pricing_program_id) ==
    LET idx == IndexesToU32(src_lst_index, dst_lst_index)
    IN  IF idx.err # "" THEN IxErr(idx.err, idx.steps)
        ELSE
        LET zero == LeBytes(0, 4)
            ix0 == swap_exact_in_ix(accounts,
                       SwapExactInIxArgs(zero, zero, idx.src, idx.dst, min_amount_out, amount))
            ext == ExtendWithVariableAccounts(ix0, sol_val_calc_accounts,
                                              pricing_program_accounts, pricing_program_id)
            steps == idx.steps \o <<"swap_exact_in_ix">> \o ext.steps
        IN  IF ext.err # "" THEN IxErr(ext.err, steps)
            ELSE LET ix == OverwriteHeader(ext.ix,
                               SecondPassArgs(ext, idx, min_amount_out, amount))
                 IN  IF ix = None THEN IxErr("SerializeError", steps \o <<"serialize">>)
                     ELSE [err |-> "", ix |-> ix, first_pass |-> Some(ext.ix),
                           steps |-> steps \o <<"serialize">>]

\* one call of swap_exact_in_ix_full
SwapExactInIxFull(accounts, src_lst_index, dst_lst_index, min_amount_out, amount, sol_val_calc_accounts, pricing_program_accounts, pricing_program_id) ==
    LET r == swap_exact_in_ix_full(accounts, src_lst_index, dst_lst_index, min_amount_out,
                                   amount, sol_val_calc_accounts, pricing_program_accounts,
                                   pricing_program_id)
    IN  /\ swp' = [called |-> TRUE, fn |-> "swap_exact_in_ix_full",
                   accounts |-> accounts,
                   src_lst_index |-> src_lst_index, dst_lst_index |-> dst_lst_index,
                   min_amount_out |-> min_amount_out, amount |-> amount,
                   sol_val_calc_accounts |-> sol_val_calc_accounts,
                   pricing_program_accounts |-> pricing_program_accounts,
                   pricing_program_id |-> pricing_program_id,
                   err |-> r.err, ix |-> r.ix, first_pass |-> r.first_pass,
                   steps |-> r.steps]
        /\ upd' = NoUpd
        /\ quo' = NoQuo
        /\ made' = NoMade
        /\ UNCHANGED mirror

----------------------------------------------------------------------------
(* SPoolJup::swap_exact_in, lines 267-333 *)

\* LstSolValCalc::ix_accounts: the accounts the calculator's instruction needs
CalcIxAccounts(calc) ==
    IF calc.program_id = "MarinadeCalc"
    THEN <<calc.lst_mint, "marinade_state">>
    ELSE <<calc.lst_mint, "spl_calc_state", "stake_pool">>

\* PricingProg::price_exact_in_accounts
PriceExactInAccounts(pp, input_lst_mint, output_lst_mint) ==
    IF pp.program_id = "FlatFee"
    THEN <<input_lst_mint, output_lst_mint, "fee_account">>
    ELSE <<input_lst_mint, output_lst_mint>>

\* SwapByMintsFreeArgs::resolve_exact_in: the keys and the two indices (usize)
\* of the mints in the LST state list
resolve_exact_in(source_mint, destination_mint, src_token_program, dst_token_program) ==
    IF ~(\E i \in 1..Len(lst_state_list_account) : lst_state_list_account[i].mint = source_mint)
       \/ ~(\E i \in 1..Len(lst_state_list_account) :
                lst_state_list_account[i].mint = destination_mint)
    THEN [err |-> "InvalidLstIndex", keys |-> <<>>, src_lst_index |-> <<>>,
          dst_lst_index |-> <<>>]
    ELSE [err |-> "",
          keys |-> <<"signer", source_mint, destination_mint, "src_lst_acc", "dst_lst_acc",
                     src_token_program, dst_token_program, "pool_state", "lst_state_list">>,
          src_lst_index |->
              LeBytes((CHOOSE i \in 1..Len(lst_state_list_account) :
                          lst_state_list_account[i].mint = source_mint) - 1, 8),
          dst_lst_index |->
              LeBytes((CHOOSE i \in 1..Len(lst_state_list_account) :
                          lst_state_list_account[i].mint = destination_mint) - 1, 8)]

\* swap_exact_in_ix_by_mint_full, swap_exact_in.rs lines 81-115: [err, ix, steps]
swap_exact_in_ix_by_mint_full(source_mint, destination_mint, src_token_program, dst_token_program, min_amount_out, amount, sol_val_calc_accounts, pricing_program_accounts, pricing_program_id) ==
    LET resolved == resolve_exact_in(source_mint, destination_mint,
                                     src_token_program, dst_token_program)
    IN  IF resolved.err # "" THEN IxErr(resolved.err, <<>>)
        ELSE swap_exact_in_ix_full(resolved.keys, resolved.src_lst_index,
                                   resolved.dst_lst_index, min_amount_out, amount,
                                   sol_val_calc_accounts, pricing_program_accounts,
                                   pricing_program_id)

SwapErr(err) == [err |-> err, account_metas |-> None]

\* Lines 280-333: [err, account_metas]
swap_exact_in(in_amount, out_amount, source_mint, destination_mint) ==
    LET src == find_ready_lst(source_mint)
        dst == find_ready_lst(destination_mint)
    IN  IF src.err # "" THEN SwapErr(src.err)
        ELSE IF dst.err # "" THEN SwapErr(dst.err)
        ELSE IF pricing_prog = None THEN SwapErr("PricingProgNotFetched")
        ELSE IF pool_state_account = None THEN SwapErr("PoolStateNotFetched")
        ELSE LET src_lst_data == Unwrap(lst_data_list[src.i])
                 dst_lst_data == Unwrap(lst_data_list[dst.i])
                 r == swap_exact_in_ix_by_mint_full(
                          source_mint, destination_mint,
                          src_lst_data.token_program, dst_lst_data.token_program,
                          out_amount, in_amount,
                          [src_lst_calculator_accounts |->
                               CalcIxAccounts(src_lst_data.sol_val_calc),
                           dst_lst_calculator_accounts |->
                               CalcIxAccounts(dst_lst_data.sol_val_calc)],
                          PriceExactInAccounts(Unwrap(pricing_prog), source_mint,
                                               destination_mint),
                          Unwrap(pool_state_account).pricing_program)
             IN  IF r.err # "" THEN SwapErr(r.err)
                 ELSE [err |-> "", account_metas |-> Some(Unwrap(r.ix).accounts)]

\* one call of swap_exact_in: the mirror is only read
SwapExactIn(in_amount, out_amount, source_mint, destination_mint) ==
    LET r == swap_exact_in(in_amount, out_amount, source_mint, destination_mint)
    IN  /\ swp' = [called |-> TRUE, fn |-> "swap_exact_in",
                   in_amount |-> in_amount, out_amount |-> out_amount,
                   source_mint |-> source_mint, destination_mint |-> destination_mint,
                   err |-> r.err, account_metas |-> r.account_metas]
        /\ upd' = NoUpd
        /\ quo' = NoQuo
        /\ made' = NoMade
        /\ UNCHANGED mirror

----------------------------------------------------------------------------
(* Constructors *)

\* SPoolJup::from_lst_state_list_account, lines 122-146
from_lst_state_list_account(list, lst_list) ==
    /\ lst_state_list_account = list
    /\ lst_data_list = IF list = <<>> THEN <<>>
                       ELSE [i \in 1..Len(list) |-> try_lst_data(lst_list, list[i])]
    /\ pool_state_account = None
    /\ pricing_prog = None
    /\ lp_mint_supply = None
    /\ upd = NoUpd
    /\ quo = NoQuo
    /\ swp = NoSwp
    /\ made = NoMade

\* SPoolJup::from_fetched_accounts, lines 148-173: fails (no mirror) unless the
\* pool state's pricing program resolves
from_fetched_accounts(list, ps, lst_list) ==
    /\ try_pricing_prog(ps, list) # None
    /\ lst_state_list_account = list
    /\ lst_data_list = IF list = <<>> THEN <<>>
                       ELSE [i \in 1..Len(list) |-> try_lst_data(lst_list, list[i])]
    /\ pool_state_account = Some(ps)
    /\ pricing_prog = try_pricing_prog(ps, list)
    /\ lp_mint_supply = None
    /\ upd = NoUpd
    /\ quo = NoQuo
    /\ swp = NoSwp
    /\ made = NoMade

\* one asset without binding fails the whole collection (collect into Result)
CollectLstDataOrFail(list, lst_list) ==
    [err |-> IF \E i \in 1..Len(list) : try_lst_data(lst_list, list[i]) = None
             THEN "LstNotSupported" ELSE "",
     data |-> IF list = <<>> THEN <<>>
              ELSE [i \in 1..Len(list) |-> try_lst_data(lst_list, list[i])]]

\* Lines 132-135: map try_lst_data over the list and collect the Options
CollectLstData(list, lst_list) ==
    [err |-> "",
     data |-> IF list = <<>> THEN <<>>
              ELSE [i \in 1..Len(list) |-> try_lst_data(lst_list, list[i])]]

\* impl Default for SPoolJup, lines 53-66: the fields before any construction
SPoolJup(supply, pool_state, list, pp, data) ==
    [lp_mint_supply |-> supply, pool_state_account |-> pool_state,
     lst_state_list_account |-> list, pricing_prog |-> pp, lst_data_list |-> data]

DefaultMirror == SPoolJup(None, None, <<>>, None, <<>>)

NewErr(err) == [err |-> err, mirror |-> DefaultMirror]

\* from_lst_state_list_account as a call, lines 122-146: [err, mirror]
NewFromLstStateListAccount(lst_state_list_acc, lst_list) ==
    IF Unwrap(lst_state_list_acc) = None THEN NewErr("LstStateListDecode")
    ELSE LET list == Unwrap(Unwrap(lst_state_list_acc))
             collected == CollectLstData(list, lst_list)
         IN  IF collected.err # "" THEN NewErr(collected.err)
             ELSE [err |-> "", mirror |-> SPoolJup(None, None, list, None, collected.data)]

\* from_fetched_accounts as a call, lines 148-173: [err, mirror]
NewFromFetchedAccounts(accounts, lst_list) ==
    IF accounts.lst_state_list = Absent THEN NewErr("MissingLstStateList")
    ELSE IF accounts.lst_state_list = Malformed THEN NewErr("LstStateListDecode")
    ELSE IF accounts.pool_state = Absent THEN NewErr("MissingPoolState")
    ELSE IF accounts.pool_state = Malformed THEN NewErr("PoolStateDecode")
    ELSE LET list == Unwrap(Unwrap(accounts.lst_state_list))
             ps == Unwrap(Unwrap(accounts.pool_state))
             pp == try_pricing_prog(ps, list)
             res == NewFromLstStateListAccount(accounts.lst_state_list, lst_list)
         IN  IF pp = None THEN NewErr("UnknownPricingProg")
             ELSE IF res.err # "" THEN res
             ELSE [err |-> "",
                   mirror |-> [res.mirror EXCEPT !.pool_state_account = Some(ps),
                                                 !.pricing_prog = pp]]

\* one constructor call: the caller holds the mirror it returns
Construct(fn, accounts, lst_list) ==
    LET r == IF fn = "from_lst_state_list_account"
             THEN NewFromLstStateListAccount(accounts.lst_state_list, lst_list)
             ELSE NewFromFetchedAccounts(accounts, lst_list)
    IN  /\ made' = [called |-> TRUE, fn |-> fn, accounts |-> accounts,
                    lst_list |-> lst_list, err |-> r.err]
        /\ IF r.err = ""
           THEN /\ lp_mint_supply' = r.mirror.lp_mint_supply
                /\ pool_state_account' = r.mirror.pool_state_account
                /\ lst_state_list_account' = r.mirror.lst_state_list_account
                /\ pricing_prog' = r.mirror.pricing_prog
                /\ lst_data_list' = r.mirror.lst_data_list
           ELSE UNCHANGED mirror
        /\ upd' = NoUpd
        /\ quo' = NoQuo
        /\ swp' = NoSwp

----------------------------------------------------------------------------
(* Account maps *)

AccountMap(lst, pool, calc, reserves, pricing, lp) ==
    [lst_state_list |-> lst, pool_state |-> pool, calc |-> calc,
     reserves |-> reserves, pricing |-> pricing, lp_mint |-> lp]

NoMintAccounts == [m \in Mints |-> Absent]

----------------------------------------------------------------------------
(* The single caller (spec section 5: single-threaded, synchronous): it     *)
(* makes one call at a time and takes its result before the next call.     *)

Idle == ~upd.called /\ ~quo.called /\ ~swp.called /\ ~made.called

Return ==
    /\ ~Idle
    /\ upd' = NoUpd
    /\ quo' = NoQuo
    /\ swp' = NoSwp
    /\ made' = NoMade
    /\ UNCHANGED mirror

----------------------------------------------------------------------------
(* Reconciliation: a mirror built from any LST state list, refreshed with    *)
(* any other list                                                           *)

ReconMaps ==
    {AccountMap(lst, Absent, NoMintAccounts, reserves, Absent, Absent) :
        lst \in {Absent, Malformed} \cup {Fetched(l) : l \in LstStateLists},
        reserves \in {NoMintAccounts} \cup {[m \in Mints |-> Fetched(b)] : b \in Balances}}

InitRecon ==
    \E list \in LstStateLists, lst_list \in Catalogs :
        from_lst_state_list_account(list, lst_list)

UpdateRecon == Idle /\ \E am \in ReconMaps : Update(am)

NextRecon == UpdateRecon \/ Return

SpecRecon == InitRecon /\ [][NextRecon]_vars

----------------------------------------------------------------------------
(* Properties of the reconciliation *)

HasMint(list, mint) == \E j \in 1..Len(list) : list[j].mint = mint
IndexOfMint(list, mint) == CHOOSE j \in 1..Len(list) : list[j].mint = mint

\* every (mint, calculator program) pair of list a is in list b
IdentitiesWithin(a, b) ==
    \A i \in 1..Len(a) : \E j \in 1..Len(b) :
        /\ b[j].mint = a[i].mint
        /\ b[j].sol_value_calculator = a[i].sol_value_calculator

\* the last update() was given a parseable LST state list
ListRefreshed == upd.called /\ IsSome(upd.am.lst_state_list) /\ IsSome(Unwrap(upd.am.lst_state_list))
NewList == Unwrap(Unwrap(upd.am.lst_state_list))

\* the binding that entered the reconciliation at old index i is the binding
\* of the index where its mint now sits
SurvivesAt(i) ==
    IsSome(upd.synced_data[i]) =>
        lst_data_list[IndexOfMint(NewList, upd.old_list[i].mint)] = upd.synced_data[i]

\* C1: identity preservation - when every (asset, family) pair of the old list
\* is still in the new list (reordered, new assets added anywhere), every
\* binding that entered the reconciliation is, unchanged, at the index where
\* its asset now sits.
C1_IdentityPreservedInSuperset ==
    (ListRefreshed /\ IdentitiesWithin(upd.old_list, NewList)) =>
        \A i \in 1..Len(upd.old_list) : SurvivesAt(i)

\* C10: removal with reorder - when the new list is the old one with assets
\* removed and the survivors permuted (families unchanged), every surviving
\* bound asset has its binding unchanged at its new index, the binding list
\* has the new list's length, and every binding left belongs to the asset of
\* its index (none belongs to a removed asset).
C10_RemovalWithReorder ==
    (ListRefreshed /\ IdentitiesWithin(NewList, upd.old_list)) =>
        /\ Len(lst_data_list) = Len(NewList)
        /\ \A i \in 1..Len(upd.old_list) :
              HasMint(NewList, upd.old_list[i].mint) => SurvivesAt(i)
        /\ \A j \in 1..Len(NewList) :
              IsSome(lst_data_list[j]) =>
                  Unwrap(lst_data_list[j]).sol_val_calc.lst_mint = NewList[j].mint

\* C10 witness: three assets, the last dropped, the other two swapped, both
\* bound with a fetched reserve balance
C10_Witness ==
    /\ ListRefreshed
    /\ Len(upd.old_list) = 3
    /\ Len(NewList) = 2
    /\ NewList[1] = upd.old_list[2]
    /\ NewList[2] = upd.old_list[1]
    /\ IsSome(upd.synced_data[1]) /\ IsSome(upd.synced_data[2]) /\ IsSome(upd.synced_data[3])
    /\ IsSome(Unwrap(upd.synced_data[1]).reserves_balance)
    /\ lst_data_list = <<upd.synced_data[2], upd.synced_data[1]>>

\* binding and LST state belong to each other: same mint, same calculator program
BindingOf(lst_data, lst_state) ==
    /\ Unwrap(lst_data).sol_val_calc.lst_mint = lst_state.mint
    /\ Unwrap(lst_data).sol_val_calc.program_id = lst_state.sol_value_calculator

\* C17: index alignment - after construction and after every refresh, failed
\* or not, the binding list is as long as the stored LST state list and the
\* binding at index i, when there is one, is the binding of list entry i.
C17_IndexAligned ==
    /\ Len(lst_data_list) = Len(lst_state_list_account)
    /\ \A i \in 1..Len(lst_data_list) :
          IsSome(lst_data_list[i]) => BindingOf(lst_data_list[i], lst_state_list_account[i])

\* C17 witness: a refresh that made the list longer and moved its assets
C17_Witness ==
    /\ ListRefreshed
    /\ Len(upd.old_list) = 2
    /\ Len(lst_state_list_account) = 3
    /\ lst_state_list_account[1].mint = upd.old_list[2].mint
    /\ lst_state_list_account[2].mint = upd.old_list[1].mint
    /\ IsSome(lst_data_list[1]) /\ IsSome(lst_data_list[2])
    /\ Len(lst_data_list) = 3

\* C17 witness of a failing refresh: the list account does not parse
C17_WitnessFailed ==
    /\ upd.called
    /\ upd.am.lst_state_list = Malformed
    /\ IsErr(upd.res)
    /\ Len(lst_data_list) = 3
    /\ IsSome(lst_data_list[3])

----------------------------------------------------------------------------
(* Refresh with failing snapshots: a two-asset mirror built by either        *)
(* constructor, refreshed with account maps in which any of the accounts    *)
(* may fail to parse                                                        *)

ListAB == <<LstState("A", "SplCalc", GoodBump), LstState("B", "MarinadeCalc", GoodBump)>>
ListBA == <<LstState("B", "MarinadeCalc", GoodBump), LstState("A", "SplCalc", GoodBump)>>
ListABOffCurve == <<LstState("A", "SplCalc", GoodBump), LstState("B", "MarinadeCalc", BadBump)>>

RefreshMaps ==
    {AccountMap(lst, pool, calc, reserves, pricing, lp) :
        lst \in {Malformed, Fetched(ListBA), Fetched(ListABOffCurve)},
        pool \in {Absent, Malformed} \cup {Fetched(PoolState(pp, 0)) : pp \in PricingPrograms},
        calc \in {[m \in Mints |-> IF m = "A" THEN a ELSE Absent] :
                    a \in {Malformed, Fetched(<<1, 1>>)}},
        reserves \in {[m \in Mints |-> IF m = "A" THEN a ELSE IF m = "B" THEN b ELSE Absent] :
                        a \in {Malformed, Fetched(MaxBal)}, b \in {Malformed, Fetched(MaxBal)}},
        pricing \in {Malformed, Fetched("fee_accounts")},
        lp \in {Malformed, Fetched(MaxBal)}}

InitRefresh ==
    \/ from_lst_state_list_account(ListAB, FullCatalog)
    \/ \E pp \in KnownPricingPrograms :
          from_fetched_accounts(ListAB, PoolState(pp, 0), FullCatalog)

UpdateRefresh == Idle /\ \E am \in RefreshMaps : Update(am)

NextRefresh == UpdateRefresh \/ Return

SpecRefresh == InitRefresh /\ [][NextRefresh]_vars

----------------------------------------------------------------------------
(* Properties of the refresh *)

Attempted(step) == \E k \in 1..Len(upd.steps) : upd.steps[k] = step
Parses(acc) == IsSome(acc) /\ IsSome(Unwrap(acc))
Parsed(acc) == Unwrap(Unwrap(acc))
Failed(kind) == \E k \in 1..Len(upd.errs) : upd.errs[k][1] = kind

\* C2: lifecycle promotion - a mirror with no pool state and no pricing
\* program, refreshed with a parseable pool state whose pricing program is a
\* known one, has the pool state and a bound pricing program afterwards.
C2_PromotedByPoolState ==
    (/\ upd.called
     /\ upd.old_pool = None
     /\ upd.old_pp = None
     /\ Parses(upd.am.pool_state)
     /\ Parsed(upd.am.pool_state).pricing_program \in KnownPricingPrograms)
    => (IsSome(pool_state_account) /\ IsSome(pricing_prog))

\* the per-LST update of old index i was attempted and every snapshot of it
\* that parses took effect
LstUpdateTookEffect(i) ==
    IsSome(upd.old_data[i]) =>
        LET mint == upd.old_list[i].mint
            ld == Unwrap(upd.synced_data[i])
        IN  /\ Attempted(<<"sol_val_calc", i>>)
            /\ Attempted(<<"reserves", i>>)
            /\ Parses(upd.am.calc[mint]) =>
                    ld.sol_val_calc.rate = Some(Parsed(upd.am.calc[mint]))
            /\ (Parses(upd.am.reserves[mint]) /\ upd.old_list[i].pool_reserves_bump # BadBump) =>
                    ld.reserves_balance = Some(Parsed(upd.am.reserves[mint]))

\* every step after the per-LST fold was attempted and took effect where its
\* snapshot parses
LaterStepsTookEffect ==
    /\ IsSome(upd.old_pp) =>
          /\ Attempted(<<"pricing_prog", 0>>)
          /\ Parses(upd.am.pricing) =>
                Unwrap(upd.synced_pp).state = Some(Parsed(upd.am.pricing))
    /\ IsSome(upd.am.lst_state_list) =>
          /\ Attempted(<<"lst_state_list", 0>>)
          /\ Parses(upd.am.lst_state_list) =>
                lst_state_list_account = Parsed(upd.am.lst_state_list)
    /\ IsSome(upd.am.pool_state) =>
          /\ Attempted(<<"pool_state", 0>>)
          /\ Parses(upd.am.pool_state) =>
                pool_state_account = Some(Parsed(upd.am.pool_state))
    /\ (IsSome(pool_state_account) /\ IsSome(upd.am.lp_mint)) =>
          /\ Attempted(<<"lp_mint_supply", 0>>)
          /\ Parses(upd.am.lp_mint) => lp_mint_supply = Some(Parsed(upd.am.lp_mint))

\* C6: refresh is exhaustive - when the calculator ingest or the reserve
\* balance of some asset fails, every other per-asset update, the pricing
\* program ingest, the list reconciliation, the pool state replacement and
\* the LP supply update are still attempted and take effect where they can.
C6_RefreshExhaustive ==
    (upd.called /\ (Failed("CalcDecode") \/ Failed("TokenAccountDecode") \/ Failed("PubkeyError")))
    => /\ \A i \in 1..Len(upd.old_data) : LstUpdateTookEffect(i)
       /\ LaterStepsTookEffect

\* C6 witness: the first asset's calculator account does not parse, and the
\* second asset's balance, the pricing program, the list, the pool state and
\* the LP supply are all updated by the same refresh
C6_Witness ==
    /\ upd.called
    /\ upd.res = Err("CalcDecode", 1)
    /\ Len(upd.errs) = 1
    /\ IsSome(upd.old_data[2])
    /\ Unwrap(upd.old_data[2]).reserves_balance = None
    /\ Unwrap(upd.synced_data[2]).reserves_balance = Some(MaxBal)
    /\ IsSome(upd.old_pp) /\ Unwrap(upd.old_pp).state = None
    /\ IsSome(pricing_prog) /\ Unwrap(pricing_prog).state = Some("fee_accounts")
    /\ lst_state_list_account # upd.old_list
    /\ pool_state_account # upd.old_pool
    /\ upd.old_supply = None /\ lp_mint_supply = Some(MaxBal)

\* C7: first error surfaced - the refresh returns Ok only if nothing failed,
\* and otherwise returns the failure met first in processing order.
C7_FirstErrorSurfaced ==
    upd.called =>
        /\ (upd.res = OkRes) <=> (upd.errs = <<>>)
        /\ (upd.errs # <<>>) => (upd.res = <<upd.errs[1]>>)

\* C8: an unresolvable new pricing program is reported - the refresh returns
\* an error and the pool state is still replaced.
C8_UnresolvableReported ==
    (/\ upd.called
     /\ IsSome(upd.old_pool)
     /\ Parses(upd.am.pool_state)
     /\ Parsed(upd.am.pool_state).pricing_program # Unwrap(upd.old_pool).pricing_program
     /\ Parsed(upd.am.pool_state).pricing_program \notin KnownPricingPrograms)
    => /\ IsErr(upd.res)
       /\ pool_state_account = Some(Parsed(upd.am.pool_state))

\* C9 as stated: a malformed list leaves list and bindings as they were
\* before the refresh, a malformed pool state leaves pool state and pricing
\* program as they were before the refresh, and the refresh returns an error.
C9_MalformedLeavesAllUnmodified ==
    upd.called =>
        /\ upd.am.lst_state_list = Malformed =>
              /\ lst_state_list_account = upd.old_list
              /\ lst_data_list = upd.old_data
              /\ IsErr(upd.res)
        /\ upd.am.pool_state = Malformed =>
              /\ pool_state_account = upd.old_pool
              /\ pricing_prog = upd.old_pp
              /\ IsErr(upd.res)

\* binding b is binding a up to what the ingest of this refresh may write:
\* the calculator's cached rate and the reserve balance
SameBindingUpToIngest(a, b, mint) ==
    /\ IsSome(a) <=> IsSome(b)
    /\ IsSome(a) =>
          /\ Unwrap(b).token_program = Unwrap(a).token_program
          /\ Unwrap(b).sol_val_calc.lst_mint = Unwrap(a).sol_val_calc.lst_mint
          /\ Unwrap(b).sol_val_calc.program_id = Unwrap(a).sol_val_calc.program_id
          /\ Unwrap(b).sol_val_calc.rate # Unwrap(a).sol_val_calc.rate =>
                (Parses(upd.am.calc[mint])
                 /\ Unwrap(b).sol_val_calc.rate = Some(Parsed(upd.am.calc[mint])))
          /\ Unwrap(b).reserves_balance # Unwrap(a).reserves_balance =>
                (Parses(upd.am.reserves[mint])
                 /\ Unwrap(b).reserves_balance = Some(Parsed(upd.am.reserves[mint])))

\* C9 amended: a malformed list leaves the stored list unchanged and the
\* binding list as the per-asset ingest of the same refresh left it (same
\* length, same calculator identities and token programs at the same
\* indices; only rates and reserve balances parsed from this refresh's
\* snapshots differ); a malformed pool state leaves the pool state unchanged
\* and the pricing program the same one, changed only by its own ingest of
\* this refresh; in both cases the refresh returns an error.
C9_MalformedLeavesFieldUnmodified ==
    upd.called =>
        /\ upd.am.lst_state_list = Malformed =>
              /\ lst_state_list_account = upd.old_list
              /\ lst_data_list = upd.synced_data
              /\ Len(lst_data_list) = Len(upd.old_data)
              /\ \A i \in 1..Len(upd.old_data) :
                    SameBindingUpToIngest(upd.old_data[i], lst_data_list[i],
                                          upd.old_list[i].mint)
              /\ IsErr(upd.res)
        /\ upd.am.pool_state = Malformed =>
              /\ pool_state_account = upd.old_pool
              /\ pricing_prog = upd.synced_pp
              /\ IsSome(pricing_prog) <=> IsSome(upd.old_pp)
              /\ IsSome(pricing_prog) =>
                    /\ Unwrap(pricing_prog).program_id = Unwrap(upd.old_pp).program_id
                    /\ Unwrap(pricing_prog).state # Unwrap(upd.old_pp).state =>
                          (Parses(upd.am.pricing)
                           /\ Unwrap(pricing_prog).state = Some(Parsed(upd.am.pricing)))
              /\ IsErr(upd.res)

\* C9 witness: list and pool state both malformed in a refresh whose other
\* snapshots parse and are ingested
C9_Witness ==
    /\ upd.called
    /\ upd.am.lst_state_list = Malformed
    /\ upd.am.pool_state = Malformed
    /\ upd.res = Err("LstStateListDecode", 0)
    /\ Len(upd.errs) = 2
    /\ lst_data_list # upd.old_data
    /\ IsSome(upd.old_pp) /\ pricing_prog # upd.old_pp
    /\ lst_state_list_account = upd.old_list
    /\ pool_state_account = upd.old_pool

\* the order the claim gives: list, pool state, pricing oracle, LP supply
ClaimedRank(step) ==
    CASE step[1] = "lst_state_list" -> 1
      [] step[1] \in {"pool_state", "pool_state_account"} -> 2
      [] step[1] \in {"pricing_prog", "try_pricing_prog", "new_pricing_prog"} -> 3
      [] step[1] = "lp_mint_supply" -> 4
      [] OTHER -> 0

\* the order of the code: per-asset ingest, ingest of the bound pricing
\* oracle, list, pool state parsed, oracle re-created, its ingest, pool state
\* stored, LP supply
CodeRank(step) ==
    CASE step[1] \in {"sol_val_calc", "reserves"} -> 0
      [] step[1] = "pricing_prog" -> 1
      [] step[1] = "lst_state_list" -> 2
      [] step[1] = "pool_state" -> 3
      [] step[1] = "try_pricing_prog" -> 4
      [] step[1] = "new_pricing_prog" -> 5
      [] step[1] = "pool_state_account" -> 6
      [] step[1] = "lp_mint_supply" -> 7

StepIndex(name) == CHOOSE k \in 1..Len(upd.steps) : upd.steps[k][1] = name
Stepped(name) == \E k \in 1..Len(upd.steps) : upd.steps[k][1] = name

\* C16 as stated: within one refresh the asset list is updated before the
\* pool state, the pool state before the pricing oracle, the pricing oracle
\* before the LP supply.
C16_ListPoolPricingSupply ==
    upd.called =>
        \A j, k \in 1..Len(upd.steps) :
            (/\ ClaimedRank(upd.steps[j]) > 0
             /\ ClaimedRank(upd.steps[j]) < ClaimedRank(upd.steps[k])) => j < k

\* C16 amended: within one refresh the steps run in the order per-asset
\* ingest, ingest of the pricing oracle bound before the refresh, list
\* reconciliation, pool state parse, re-creation of the pricing oracle and its
\* ingest (when the pricing program changed), pool state store, LP supply; an
\* oracle created in the refresh is created after the list was reconciled.
C16_UpdateOrder ==
    upd.called =>
        /\ \A j, k \in 1..Len(upd.steps) :
              CodeRank(upd.steps[j]) < CodeRank(upd.steps[k]) => j < k
        /\ (Stepped("try_pricing_prog") /\ Stepped("lst_state_list")) =>
              StepIndex("lst_state_list") < StepIndex("try_pricing_prog")

\* C16 witness: one refresh that ingests the bound oracle, reconciles the
\* list, replaces the pool state, re-creates the oracle and updates LP supply
C16_Witness ==
    /\ upd.called
    /\ Stepped("pricing_prog") /\ Stepped("lst_state_list") /\ Stepped("pool_state")
    /\ Stepped("new_pricing_prog") /\ Stepped("pool_state_account")
    /\ Stepped("lp_mint_supply")
    /\ StepIndex("pricing_prog") < StepIndex("lst_state_list")
    /\ lst_state_list_account # upd.old_list
    /\ IsSome(pricing_prog) /\ Unwrap(pricing_prog).program_id # Unwrap(upd.old_pp).program_id

----------------------------------------------------------------------------
(* Quoting: a mirror of two or three assets, refreshed with parseable       *)
(* snapshots and asked for quotes between any two mints                     *)

ListABC == <<LstState("A", "SplCalc", GoodBump), LstState("B", "MarinadeCalc", GoodBump),
             LstState("C", "SplCalc", GoodBump)>>

QuoteMaps ==
    {AccountMap(Absent, pool, calc, reserves, pricing, Absent) :
        pool \in {Absent, Fetched(PoolState("FlatFee", 5000)), Fetched(PoolState("FlatSlab", 0))},
        calc \in {NoMintAccounts,
                  [m \in Mints |-> IF m = "A" THEN Fetched(<<1, 1>>)
                                   ELSE IF m = "B" THEN Fetched(<<2, 1>>) ELSE Absent],
                  [m \in Mints |-> IF m = "A" THEN Fetched(<<1, 2>>)
                                   ELSE IF m = "B" THEN Fetched(<<1, 1>>) ELSE Absent]},
        reserves \in {NoMintAccounts,
                      [m \in Mints |-> IF m = "A" THEN Fetched(MaxBal) ELSE Absent]}
                     \cup {[m \in Mints |-> IF m = "A" THEN Fetched(MaxBal)
                                            ELSE IF m = "B" THEN Fetched(b) ELSE Absent] :
                              b \in Balances},
        pricing \in {Absent, Fetched("fee_accounts")}}

\* what the pricing policy may answer: an error or any sol value up to one
\* more than the largest input sol value
PricedAnswers == {None} \cup {Some(v) : v \in 0..(2 * MaxAmt + 1)}

InitQuote ==
    \E list \in {ListAB, ListABC}, lst_list \in Catalogs :
        \/ from_lst_state_list_account(list, lst_list)
        \/ from_fetched_accounts(list, PoolState("FlatFee", 5000), lst_list)

UpdateQuote == Idle /\ \E am \in QuoteMaps : Update(am)

Quote ==
    /\ Idle
    /\ \E amount \in 0..MaxAmt, input_mint \in Mints, output_mint \in Mints,
          priced \in PricedAnswers :
            QuoteSwapExactIn(amount, input_mint, output_mint, priced)

Swap ==
    /\ Idle
    /\ \E source_mint \in Mints, destination_mint \in Mints :
          SwapExactIn(MaxAmt, 1, source_mint, destination_mint)

NextQuote == UpdateQuote \/ Quote \/ Swap \/ Return

SpecQuote == InitQuote /\ [][NextQuote]_vars

----------------------------------------------------------------------------
(* Properties of the quote *)

Quoted == quo.called /\ IsSome(quo.quote)

\* C3: value conservation - every Quote has output sol value <= input sol
\* value, and whenever the pricing program answers more than the input sol
\* value the call fails with PoolWouldLoseSolValue and returns no Quote.
C3_ValueConservation ==
    quo.called =>
        /\ IsSome(quo.quote) => Unwrap(quo.out_sol_value) <= Unwrap(quo.in_sol_value)
        /\ (IsSome(quo.out_sol_value)
            /\ Unwrap(quo.out_sol_value) > Unwrap(quo.in_sol_value)) =>
                (quo.err = "PoolWouldLoseSolValue" /\ quo.quote = None)

\* C3 witness: the pricing program answered more than the input sol value
C3_Witness ==
    /\ quo.called
    /\ IsSome(quo.in_sol_value) /\ IsSome(quo.out_sol_value)
    /\ Unwrap(quo.out_sol_value) = Unwrap(quo.in_sol_value) + 1
    /\ quo.err = "PoolWouldLoseSolValue"

\* C4: zero-value rejection - an input amount worth 0 sol, or an output sol
\* value worth 0 of the output LST, fails with ZeroValue; no Quote has
\* out_amount = 0.
C4_ZeroValueRejected ==
    quo.called =>
        /\ quo.in_sol_value = Some(0) => (quo.err = "ZeroValue" /\ quo.quote = None)
        /\ quo.dst_lst_out = Some(0) => (quo.err = "ZeroValue" /\ quo.quote = None)
        /\ IsSome(quo.quote) => Unwrap(quo.quote).out_amount # 0

\* C4 witness: a positive input amount that rounds to 0 sol
C4_Witness ==
    /\ quo.called
    /\ quo.amount > 0
    /\ quo.in_sol_value = Some(0)
    /\ quo.err = "ZeroValue"

\* the mirror has no bound, balance-fetched entry for the mint
NotReady(mint) ==
    \/ ~HasMint(lst_state_list_account, mint)
    \/ lst_data_list[IndexOfMint(lst_state_list_account, mint)] = None
    \/ Unwrap(lst_data_list[IndexOfMint(lst_state_list_account, mint)]).reserves_balance = None

\* C5: quote preconditions - no Quote, and an error, when the pool state or
\* the pricing program is missing, or when either mint is not on the list,
\* has no binding, or has no fetched reserve balance.
C5_QuotePreconditions ==
    (/\ quo.called
     /\ \/ pool_state_account = None
        \/ pricing_prog = None
        \/ NotReady(quo.input_mint)
        \/ NotReady(quo.output_mint))
    => (quo.quote = None /\ quo.err # "")

\* C5 witness: everything is present but the output asset's reserve balance
C5_Witness ==
    /\ quo.called
    /\ IsSome(pool_state_account)
    /\ IsSome(pricing_prog)
    /\ ~NotReady(quo.input_mint)
    /\ HasMint(lst_state_list_account, quo.output_mint)
    /\ IsSome(lst_data_list[IndexOfMint(lst_state_list_account, quo.output_mint)])
    /\ NotReady(quo.output_mint)
    /\ quo.err = "ReservesNotFetched"

\* the reserve balance the mirror holds for the quote's output mint
OutputReservesBalance ==
    Unwrap(Unwrap(lst_data_list[IndexOfMint(lst_state_list_account, quo.output_mint)])
               .reserves_balance)

\* C14: liquidity flag - a call whose output amount plus protocol fee exceeds
\* the output asset's reserve balance still returns a Quote, and every Quote
\* has not_enough_liquidity = TRUE exactly when out_amount plus the protocol
\* fee exceeds that balance.
C14_LiquidityFlag ==
    quo.called =>
        /\ (/\ IsSome(quo.to_protocol_fees_lst_amount)
            /\ Unwrap(quo.dst_lst_out) + Unwrap(quo.to_protocol_fees_lst_amount)
                  > OutputReservesBalance)
           => IsSome(quo.quote)
        /\ IsSome(quo.quote) =>
              (Unwrap(quo.quote).not_enough_liquidity
                 <=> (Unwrap(quo.quote).out_amount + Unwrap(quo.to_protocol_fees_lst_amount)
                        > OutputReservesBalance))

\* C14 witness: the output amount alone is within the reserve balance, the
\* output amount plus the protocol fee is not, and the Quote is flagged
C14_Witness ==
    /\ Quoted
    /\ Unwrap(quo.quote).out_amount <= OutputReservesBalance
    /\ Unwrap(quo.to_protocol_fees_lst_amount) > 0
    /\ Unwrap(quo.quote).not_enough_liquidity

\* C14 witness of the other side: a Quote within the reserves is not flagged
C14_WitnessEnough ==
    /\ Quoted
    /\ Unwrap(quo.quote).out_amount + Unwrap(quo.to_protocol_fees_lst_amount)
          = OutputReservesBalance
    /\ ~Unwrap(quo.quote).not_enough_liquidity

\* C15: fee percentage - every Quote's fee_pct is (input sol value - output
\* sol value) / input sol value and lies in [0, 1]; the divisor is never zero:
\* a zero input sol value is rejected with ZeroValue before the division.
C15_FeePct ==
    quo.called =>
        /\ IsSome(quo.quote) =>
              LET fee_pct == Unwrap(quo.quote).fee_pct
                  in_sol_value == Unwrap(quo.in_sol_value)
                  out_sol_value == Unwrap(quo.out_sol_value)
              IN  /\ in_sol_value > 0
                  /\ fee_pct[2] > 0
                  /\ fee_pct[1] * in_sol_value = (in_sol_value - out_sol_value) * fee_pct[2]
                  /\ 0 <= fee_pct[1]
                  /\ fee_pct[1] <= fee_pct[2]
        /\ quo.in_sol_value = Some(0) => quo.err = "ZeroValue"
        /\ quo.err # "QuoteFeesError"

\* C15 witness: a Quote whose fee is half of the input sol value
C15_Witness ==
    /\ Quoted
    /\ Unwrap(quo.in_sol_value) = 2 * Unwrap(quo.out_sol_value)
    /\ Unwrap(quo.quote).fee_pct = <<Unwrap(quo.out_sol_value), Unwrap(quo.in_sol_value)>>

\* C20: quote and swap assembly are read-only - a step that is a call of
\* quote_swap_exact_in or of swap_exact_in, failed or not, leaves every field
\* of the mirror as it was; the synced pool state and LST states of a quote
\* are not written back.
C20_QuoteAndSwapReadOnly ==
    [][(quo'.called \/ swp'.called) => UNCHANGED mirror]_vars

\* C20 witness: a Quote whose sync gave the input LST another sol value than
\* the stored one, and the stored one is still the value last fetched
C20_Witness ==
    /\ Quoted
    /\ LET i == IndexOfMint(lst_state_list_account, quo.input_mint)
           synced == apply_sync_sol_value(Unwrap(pool_state_account),
                                          lst_state_list_account[i],
                                          Unwrap(lst_data_list[i]))
       IN  /\ synced.err = ""
           /\ synced.lst_state.sol_value > 0
           /\ synced.pool_state.total_sol_value > 0
           /\ lst_state_list_account[i].sol_value = 0
           /\ Unwrap(pool_state_account).total_sol_value = 0

\* C20 witness of the swap: account metas returned from a mirror whose fields
\* are all fetched
C20_WitnessSwap ==
    /\ swp.called
    /\ swp.fn = "swap_exact_in"
    /\ swp.err = ""
    /\ IsSome(swp.account_metas)
    /\ swp.source_mint # swp.destination_mint

----------------------------------------------------------------------------
(* Instruction assembly: swap_exact_in_ix_full applied to any indices       *)
(* (below and above the 32-bit range) and any three groups of accounts      *)

MaxAccs == 2     \* longest group of calculator or pricing accounts

IxAccounts == {"acc_x", "acc_y"}
AccountLists == SeqsUpTo(IxAccounts, MaxAccs)

\* 0, 2, 2^32 - 1, 2^32 and 2^32 + 2 as usize
UsizeValues ==
    {LeBytes(0, 8), LeBytes(2, 8), <<255, 255, 255, 255, 0, 0, 0, 0>>,
     <<0, 0, 0, 0, 1, 0, 0, 0>>, <<2, 0, 0, 0, 1, 0, 0, 0>>}

SwapExactInKeys ==
    <<"signer", "src_lst_mint", "dst_lst_mint", "src_lst_acc", "dst_lst_acc",
      "pool_state", "lst_state_list">>

SrcDstLstSolValueCalcAccounts(src, dst) ==
    [src_lst_calculator_accounts |-> src, dst_lst_calculator_accounts |-> dst]

InitIx == from_lst_state_list_account(ListAB, FullCatalog)

CallSwapExactInIxFull ==
    /\ Idle
    /\ \E src_lst_index \in UsizeValues, dst_lst_index \in UsizeValues,
          amount \in {1, 258},
          src \in AccountLists, dst \in AccountLists, pricing \in AccountLists :
            SwapExactInIxFull(SwapExactInKeys, src_lst_index, dst_lst_index, 1, amount,
                              SrcDstLstSolValueCalcAccounts(src, dst), pricing, "FlatFee")

NextIx == CallSwapExactInIxFull \/ Return

SpecIx == InitIx /\ [][NextIx]_vars

----------------------------------------------------------------------------
(* Properties of the instruction assembly *)

IxFullCalled == swp.called /\ swp.fn = "swap_exact_in_ix_full"
IxAssembled == IxFullCalled /\ swp.err = "" /\ IsSome(swp.ix)
SrcCalcAccounts == swp.sol_val_calc_accounts.src_lst_calculator_accounts
DstCalcAccounts == swp.sol_val_calc_accounts.dst_lst_calculator_accounts
AboveU32(index) == \E k \in 5..8 : index[k] # 0

\* C11: count round-trip - in every assembled instruction the two counts
\* decoded from the header are the numbers of input-calculator and of
\* output-calculator accounts that were appended, zero included.
C11_CountRoundTrip ==
    IxAssembled =>
        LET header == DeserializeSwapExactInIxData(Unwrap(swp.ix).data)
        IN  /\ header.src_lst_value_calc_accs = Len(SrcCalcAccounts)
            /\ header.dst_lst_value_calc_accs = Len(DstCalcAccounts)

\* C11 witness: two input-calculator accounts, no output-calculator account
C11_Witness ==
    /\ IxAssembled
    /\ Len(SrcCalcAccounts) = 2
    /\ Len(DstCalcAccounts) = 0
    /\ Len(swp.pricing_program_accounts) = 1
    /\ DeserializeSwapExactInIxData(Unwrap(swp.ix).data).src_lst_value_calc_accs = 2

\* C12: index overflow - with src_lst_index or dst_lst_index above 2^32 - 1
\* the call fails with Overflow, nothing is encoded, no account is appended
\* and no instruction is returned.
C12_IndexOverflow ==
    (IxFullCalled /\ (AboveU32(swp.src_lst_index) \/ AboveU32(swp.dst_lst_index))) =>
        /\ swp.err = "Overflow"
        /\ swp.ix = None
        /\ \A k \in 1..Len(swp.steps) : swp.steps[k] = "index_to_u32"

\* C12 witness: the source index fits, the destination index is 2^32
C12_Witness ==
    /\ IxFullCalled
    /\ ~AboveU32(swp.src_lst_index)
    /\ swp.dst_lst_index = <<0, 0, 0, 0, 1, 0, 0, 0>>
    /\ swp.err = "Overflow"
    /\ swp.ix = None

\* C13: account-list order - in every assembled instruction the base accounts
\* are followed by the input-calculator accounts, the output-calculator
\* accounts, the pricing program's id and the pricing accounts, in that
\* order; the tail has src_count + dst_count + 1 + (pricing accounts) entries.
C13_AccountListOrder ==
    IxAssembled =>
        LET accounts == Unwrap(swp.ix).accounts
            header == DeserializeSwapExactInIxData(Unwrap(swp.ix).data)
        IN  /\ accounts = swp.accounts \o SrcCalcAccounts \o DstCalcAccounts
                              \o <<swp.pricing_program_id>> \o swp.pricing_program_accounts
            /\ Len(accounts) - Len(swp.accounts)
                 = header.src_lst_value_calc_accs + header.dst_lst_value_calc_accs
                     + 1 + Len(swp.pricing_program_accounts)

\* C13 witness: three non-empty groups that differ from one another
C13_Witness ==
    /\ IxAssembled
    /\ SrcCalcAccounts = <<"acc_x">>
    /\ DstCalcAccounts = <<"acc_y", "acc_y">>
    /\ swp.pricing_program_accounts = <<"acc_y", "acc_x">>
    /\ Len(Unwrap(swp.ix).accounts) = Len(swp.accounts) + 6

----------------------------------------------------------------------------
(* Construction: either constructor applied to any LST state list account,  *)
(* any catalog and any pool state account                                   *)

NewAccounts(lst, pool) ==
    AccountMap(lst, pool, NoMintAccounts, NoMintAccounts, Absent, Absent)

NothingConstructed ==
    SPoolJup(lp_mint_supply, pool_state_account, lst_state_list_account, pricing_prog,
             lst_data_list) = DefaultMirror

InitNew ==
    /\ lp_mint_supply = None
    /\ pool_state_account = None
    /\ lst_state_list_account = <<>>
    /\ pricing_prog = None
    /\ lst_data_list = <<>>
    /\ upd = NoUpd
    /\ quo = NoQuo
    /\ swp = NoSwp
    /\ made = NoMade

ConstructFromLstStateListAccount ==
    /\ Idle
    /\ NothingConstructed
    /\ \E lst \in {Malformed} \cup {Fetched(l) : l \in LstStateLists}, lst_list \in Catalogs :
          Construct("from_lst_state_list_account", NewAccounts(lst, Absent), lst_list)

ConstructFromFetchedAccounts ==
    /\ Idle
    /\ NothingConstructed
    /\ \E lst \in {Absent, Malformed} \cup {Fetched(l) : l \in LstStateLists},
          pool \in {Absent, Malformed} \cup {Fetched(PoolState(pp, 0)) : pp \in PricingPrograms},
          lst_list \in Catalogs :
            Construct("from_fetched_accounts", NewAccounts(lst, pool), lst_list)

NextNew == ConstructFromLstStateListAccount \/ ConstructFromFetchedAccounts \/ Return

SpecNew == InitNew /\ [][NextNew]_vars

----------------------------------------------------------------------------
(* Properties of the construction *)

CatalogEntries(lst_list, mint) == {entry \in lst_list : entry.mint = mint}

\* the catalog gives no usable calculator for the LST state: no entry, an
\* unhandled family, or a calculator program other than the on-chain one
Unrecognized(lst_list, lst_state) ==
    \/ CatalogEntries(lst_list, lst_state.mint) = {}
    \/ \E entry \in CatalogEntries(lst_list, lst_state.mint) :
          \/ entry.pool = "SPool"
          \/ CalcProgramOf(entry.pool) # lst_state.sol_value_calculator

\* C18: construction degrades per asset - a constructor given a parseable LST
\* state list never fails because of an asset (from_lst_state_list_account
\* never fails, from_fetched_accounts only for its pool state); in the mirror
\* it returns, an asset that is missing from the catalog, of an unhandled
\* family or bound to another calculator program on chain has no binding, and
\* every other asset has its fresh binding.
C18_ConstructionDegradesPerAsset ==
    (made.called /\ Parses(made.accounts.lst_state_list)) =>
        LET list == Parsed(made.accounts.lst_state_list)
        IN  /\ made.fn = "from_lst_state_list_account" => made.err = ""
            /\ made.err \in {"", "MissingPoolState", "PoolStateDecode", "UnknownPricingProg"}
            /\ made.err = "" =>
                  /\ lst_state_list_account = list
                  /\ Len(lst_data_list) = Len(list)
                  /\ \A i \in 1..Len(list) :
                        IF Unrecognized(made.lst_list, list[i])
                        THEN lst_data_list[i] = None
                        ELSE /\ IsSome(lst_data_list[i])
                             /\ BindingOf(lst_data_list[i], list[i])
                             /\ Unwrap(lst_data_list[i]).reserves_balance = None
                             /\ \E entry \in CatalogEntries(made.lst_list, list[i].mint) :
                                   Unwrap(lst_data_list[i]).token_program = entry.token_program

\* C18 witness: three assets, the first bound, the second with another
\* calculator program on chain than its catalog family's, the third of an
\* unhandled family
C18_Witness ==
    /\ made.called
    /\ made.fn = "from_lst_state_list_account"
    /\ made.err = ""
    /\ Len(lst_state_list_account) = 3
    /\ lst_state_list_account[2].sol_value_calculator = "SplCalc"
    /\ \E entry \in made.lst_list : entry.mint = "B" /\ entry.pool = "Marinade"
    /\ \E entry \in made.lst_list : entry.mint = "C" /\ entry.pool = "SPool"
    /\ lst_state_list_account[1].mint = "A"
    /\ lst_state_list_account[2].mint = "B"
    /\ IsSome(lst_data_list[1])
    /\ lst_data_list[2] = None
    /\ lst_data_list[3] = None

----------------------------------------------------------------------------
(* The two-asset scenario: reserves of 1_000_000 A and 500_000 B, A at 1:1, *)
(* B at either ratio, quotes of about 100 units in both directions          *)

ScenarioMaps ==
    {AccountMap(Absent, pool, calc, reserves, Fetched("fee_accounts"), Absent) :
        pool \in {Absent, Fetched(PoolState("FlatFee", 5000))},
        calc \in {[m \in Mints |-> IF m = "A" THEN Fetched(<<1, 1>>)
                                   ELSE IF m = "B" THEN Fetched(b) ELSE Absent] :
                     b \in {<<1, 2>>, <<2, 1>>}},
        reserves \in {[m \in Mints |-> IF m = "A" THEN Fetched(1000000)
                                       ELSE IF m = "B" THEN Fetched(500000) ELSE Absent]}}

InitScenario ==
    \E pp \in KnownPricingPrograms :
        from_fetched_accounts(ListAB, PoolState(pp, 0), FullCatalog)

UpdateScenario == Idle /\ \E am \in ScenarioMaps : Update(am)

\* the pricing policy answers the input's sol value (no spread), half of it
\* or twice it
QuoteScenario ==
    /\ Idle
    /\ \E amount \in {1, 50, 99, 100, 101}, input_mint \in {"A", "B"},
          output_mint \in {"A", "B"}, factor \in {<<1, 1>>, <<1, 2>>, <<2, 1>>} :
            QuoteSwapExactIn(amount, input_mint, output_mint,
                             Some((amount * factor[1]) \div factor[2]))

NextScenario == UpdateScenario \/ QuoteScenario \/ Return

SpecScenario == InitScenario /\ [][NextScenario]_vars

----------------------------------------------------------------------------
(* Properties of the scenario *)

\* the pool of the scenario, asset B at rate_b (<<n, d>>: n reference units per
\* d native units)
ScenarioPool(rate_b) ==
    /\ IsSome(pool_state_account)
    /\ IsSome(pricing_prog) /\ IsSome(Unwrap(pricing_prog).state)
    /\ Len(lst_state_list_account) = 2
    /\ lst_state_list_account[1].mint = "A" /\ lst_state_list_account[2].mint = "B"
    /\ IsSome(lst_data_list[1]) /\ IsSome(lst_data_list[2])
    /\ Unwrap(lst_data_list[1]).sol_val_calc.rate = Some(<<1, 1>>)
    /\ Unwrap(lst_data_list[1]).reserves_balance = Some(1000000)
    /\ Unwrap(lst_data_list[2]).sol_val_calc.rate = Some(rate_b)
    /\ Unwrap(lst_data_list[2]).reserves_balance = Some(500000)

\* 100 units of A quoted for B, the pricing policy answering the input's value
ScenarioQuote ==
    /\ quo.called
    /\ quo.input_mint = "A" /\ quo.output_mint = "B"
    /\ quo.amount = 100
    /\ quo.priced = Some(100)

\* C19 as stated: with B at 2:1 native:reference (two native units for one
\* reference unit) the scenario quotes about 50 units of B, not flagged.
C19_ScenarioQuotesAbout50 ==
    (ScenarioPool(<<1, 2>>) /\ ScenarioQuote) =>
        /\ IsSome(quo.quote)
        /\ Unwrap(quo.quote).out_amount \in 45..55
        /\ ~Unwrap(quo.quote).not_enough_liquidity

\* C19 amended: with B at 2:1 native:reference the scenario quotes 200 units
\* of B; it quotes 50 units of B when one native unit of B is worth two
\* reference units; in both cases with no fee and not flagged.
C19_ScenarioQuote ==
    /\ (ScenarioPool(<<1, 2>>) /\ ScenarioQuote) =>
          /\ IsSome(quo.quote)
          /\ Unwrap(quo.quote).out_amount = 200
          /\ Unwrap(quo.quote).fee_amount = 0
          /\ ~Unwrap(quo.quote).not_enough_liquidity
    /\ (ScenarioPool(<<2, 1>>) /\ ScenarioQuote) =>
          /\ IsSome(quo.quote)
          /\ Unwrap(quo.quote).out_amount = 50
          /\ Unwrap(quo.quote).fee_amount = 0
          /\ ~Unwrap(quo.quote).not_enough_liquidity

\* C19 witness: the scenario with B at two native units per reference unit
C19_Witness ==
    /\ ScenarioPool(<<1, 2>>)
    /\ ScenarioQuote
    /\ Quoted
    /\ Unwrap(quo.in_sol_value) = 100 /\ Unwrap(quo.out_sol_value) = 100
    /\ Unwrap(quo.quote).out_amount = 200

----------------------------------------------------------------------------
(* Properties of the reconciliation paths *)

\* the list given to the last update() has the old list's length and, at every
\* index, the old entry's mint and calculator program
FastPathCase ==
    /\ ListRefreshed
    /\ Len(NewList) = Len(upd.old_list)
    /\ \A i \in 1..Len(NewList) :
          /\ NewList[i].mint = upd.old_list[i].mint
          /\ NewList[i].sol_value_calculator = upd.old_list[i].sol_value_calculator

\* C21: reconciliation fast path - when the new list has the old list's length
\* and the same mint and calculator program at every index, every binding
\* (calculator state, reserve balance, token program) is exactly the binding
\* that entered the reconciliation, and the stored list is the new one.
C21_FastPathFrame ==
    FastPathCase =>
        /\ lst_data_list = upd.synced_data
        /\ lst_state_list_account = NewList

\* C21 witness: the new list differs from the old one in a field that is
\* neither mint nor calculator program, and both assets are bound with a
\* calculator rate and a reserve balance
C21_Witness ==
    /\ FastPathCase
    /\ NewList # upd.old_list
    /\ lst_state_list_account = NewList
    /\ Len(lst_data_list) = 2
    /\ \A i \in 1..2 :
          /\ IsSome(lst_data_list[i])
          /\ IsSome(Unwrap(lst_data_list[i]).reserves_balance)
    /\ IsSome(Unwrap(lst_data_list[1]).sol_val_calc.rate)

\* the last update() reconciled the bindings on the slow path
SlowPathCase == ListRefreshed /\ ~FastPathCase

\* the indices that the old and the new list share
SharedIndices == 1..Min(Len(upd.old_list), Len(NewList))

\* C22: family change retires the binding - on the slow path, an index whose
\* mint is unchanged but whose calculator program differs from the program of
\* the calculator bound there has no binding afterwards, and an index whose
\* mint and calculator program are both unchanged has the binding that entered
\* the reconciliation, unchanged.
C22_FamilyChangeRetires ==
    SlowPathCase =>
        \A i \in SharedIndices :
            upd.old_list[i].mint = NewList[i].mint =>
                /\ (/\ IsSome(upd.synced_data[i])
                    /\ Unwrap(upd.synced_data[i]).sol_val_calc.program_id
                          # NewList[i].sol_value_calculator)
                   => lst_data_list[i] = None
                /\ upd.old_list[i].sol_value_calculator = NewList[i].sol_value_calculator
                   => lst_data_list[i] = upd.synced_data[i]

\* C22 witness: the first asset's calculator program changed and its binding is
\* gone, the second asset is untouched and keeps its binding and balance
C22_Witness ==
    /\ SlowPathCase
    /\ Len(upd.old_list) = 2 /\ Len(NewList) = 2
    /\ upd.old_list[1].mint = NewList[1].mint
    /\ upd.old_list[1].sol_value_calculator # NewList[1].sol_value_calculator
    /\ IsSome(upd.synced_data[1])
    /\ lst_data_list[1] = None
    /\ upd.old_list[2] = NewList[2]
    /\ IsSome(lst_data_list[2])
    /\ IsSome(Unwrap(lst_data_list[2]).reserves_balance)
    /\ lst_data_list[2] = upd.synced_data[2]

----------------------------------------------------------------------------
(* Properties of the second pass of the instruction assembly *)

\* the bytes of the two count fields, the first two 32-bit fields of the header
CountFieldBytes == 1..Len(LeBytes(0, 4) \o LeBytes(0, 4))

\* C23: the second-pass header rewrite is confined to the header - the
\* assembled instruction has the account list and the data length of the
\* instruction as it stood after the first pass, its header holds the caller's
\* indices, minimum output and input amount, and every byte outside the two
\* count fields is the byte the first pass (with zero counts) wrote.
C23_HeaderRewriteConfined ==
    IxAssembled =>
        LET first == Unwrap(swp.first_pass)
            ix == Unwrap(swp.ix)
            header == DeserializeSwapExactInIxData(ix.data)
        IN  /\ ix.accounts = first.accounts
            /\ Len(ix.data) = Len(first.data)
            /\ header.src_lst_index \o LeBytes(0, 4) = swp.src_lst_index
            /\ header.dst_lst_index \o LeBytes(0, 4) = swp.dst_lst_index
            /\ header.min_amount_out = swp.min_amount_out
            /\ header.amount = swp.amount
            /\ DeserializeSwapExactInIxData(first.data).src_lst_value_calc_accs = 0
            /\ DeserializeSwapExactInIxData(first.data).dst_lst_value_calc_accs = 0
            /\ \A k \in (1..Len(ix.data)) \ CountFieldBytes : ix.data[k] = first.data[k]

\* C23 witness: accounts of all three groups were appended, both counts were
\* rewritten to non-zero values, and the indices and the amount are not zero
C23_Witness ==
    /\ IxAssembled
    /\ Len(SrcCalcAccounts) = 2
    /\ Len(DstCalcAccounts) = 1
    /\ Len(swp.pricing_program_accounts) = 2
    /\ swp.src_lst_index = LeBytes(2, 8)
    /\ swp.dst_lst_index = <<255, 255, 255, 255, 0, 0, 0, 0>>
    /\ swp.amount = 258
    /\ Unwrap(swp.ix).data # Unwrap(swp.first_pass).data
    /\ Len(Unwrap(swp.ix).accounts) = Len(SwapExactInKeys) + 6
    /\ DeserializeSwapExactInIxData(Unwrap(swp.ix).data).src_lst_value_calc_accs = 2
    /\ DeserializeSwapExactInIxData(Unwrap(swp.ix).data).dst_lst_value_calc_accs = 1

----------------------------------------------------------------------------
(* Invariants of the bindings *)

\* LstSolValCalc identity: (lst_mint, sol_value_calculator_program_id)
identity(calc) == <<calc.lst_mint, calc.program_id>>

\* C24: binding identity - after construction and after every refresh, every
\* index that has a binding is an index of the stored list, and the identity
\* of the calculator bound there is (mint, calculator program) of the list
\* entry at that index.
C24_BindingIdentity ==
    \A i \in 1..Len(lst_data_list) :
        IsSome(lst_data_list[i]) =>
            /\ i <= Len(lst_state_list_account)
            /\ identity(Unwrap(lst_data_list[i]).sol_val_calc)
                  = <<lst_state_list_account[i].mint,
                      lst_state_list_account[i].sol_value_calculator>>

\* C24 witness: a refresh moved a bound asset to another index with another
\* calculator program and moved a second bound asset with its program: the
\* first has no binding, the second has its binding at its new index
C24_Witness ==
    /\ SlowPathCase
    /\ Len(upd.old_list) = 3 /\ Len(NewList) = 3
    /\ IsSome(upd.synced_data[1]) /\ IsSome(upd.synced_data[2])
    /\ NewList[1] = upd.old_list[2]
    /\ NewList[2].mint = upd.old_list[1].mint
    /\ NewList[2].sol_value_calculator # upd.old_list[1].sol_value_calculator
    /\ lst_data_list[1] = upd.synced_data[2]
    /\ lst_data_list[2] = None
    /\ IsSome(lst_data_list[3])

----------------------------------------------------------------------------
(* Invariants of the pricing program *)

\* the last update() stored a pool state that names another pricing program
\* than the pool state it replaced
PricingProgramChanged ==
    /\ upd.called
    /\ IsSome(upd.old_pool)
    /\ IsSome(pool_state_account)
    /\ Unwrap(pool_state_account).pricing_program # Unwrap(upd.old_pool).pricing_program

\* C25: pricing program consistency - after construction and after every
\* refresh, a bound pricing program comes with a stored pool state and is the
\* program that pool state names; and when a refresh changes the pool state's
\* pricing program, the mirror has either no pricing program or a new one for
\* the new program that took its state from the same account map, never the
\* old one.
C25_PricingProgConsistent ==
    /\ IsSome(pricing_prog) =>
          /\ IsSome(pool_state_account)
          /\ Unwrap(pricing_prog).program_id = Unwrap(pool_state_account).pricing_program
    /\ PricingProgramChanged =>
          \/ pricing_prog = None
          \/ /\ IsSome(pricing_prog)
             /\ pricing_prog # upd.old_pp
             /\ pricing_prog # upd.synced_pp
             /\ Unwrap(pricing_prog).program_id = Unwrap(pool_state_account).pricing_program
             /\ Unwrap(pricing_prog).state
                  = IF Parses(upd.am.pricing) THEN Some(Parsed(upd.am.pricing)) ELSE None

\* C25 witness: a mirror with a bound pricing program was refreshed with a pool
\* state naming the other known program, and the new program is bound with
\* the state of the same account map
C25_Witness ==
    /\ PricingProgramChanged
    /\ IsSome(upd.old_pp)
    /\ IsSome(Unwrap(upd.old_pp).state)
    /\ IsSome(pricing_prog)
    /\ Unwrap(pricing_prog).program_id # Unwrap(upd.old_pp).program_id
    /\ Unwrap(pricing_prog).program_id \in KnownPricingPrograms
    /\ IsSome(Unwrap(pricing_prog).state)

\* C25 witness of the other outcome: the new pool state names a program that
\* cannot be built and the mirror has no pricing program left
C25_WitnessAbsent ==
    /\ PricingProgramChanged
    /\ IsSome(upd.old_pp)
    /\ pricing_prog = None
    /\ Unwrap(pool_state_account).pricing_program \notin KnownPricingPrograms

\* the identities of the calculators bound in a binding list
BoundIdentities(data_list) ==
    {identity(Unwrap(data_list[i]).sol_val_calc) :
        i \in {j \in 1..Len(data_list) : IsSome(data_list[j])}}

\* this step is an update() that reconciled the bindings with a parsed list
Reconciles ==
    /\ upd'.called
    /\ IsSome(upd'.am.lst_state_list)
    /\ IsSome(Unwrap(upd'.am.lst_state_list))

\* C26: refresh never creates bindings - in every step the identities bound
\* afterwards are among those bound before (so an asset that lost its binding
\* never has one again), and after a reconciliation every index at or beyond
\* the old list's length, and every index whose entry's (mint, calculator
\* program) was the identity of no binding before, has no binding.
C26_RefreshNeverBinds ==
    [][/\ BoundIdentities(lst_data_list') \subseteq BoundIdentities(lst_data_list)
       /\ Reconciles =>
             \A j \in 1..Len(lst_data_list') :
                 (\/ j > Len(lst_state_list_account)
                  \/ <<lst_state_list_account'[j].mint,
                        lst_state_list_account'[j].sol_value_calculator>>
                       \notin BoundIdentities(lst_data_list))
                 => lst_data_list'[j] = None]_vars

\* C26 witness: a list of two bound assets was refreshed with a longer list
\* that keeps the first asset, puts a new asset second and the old second
\* asset last: only the first index is bound
C26_Witness ==
    /\ ListRefreshed
    /\ Len(upd.old_list) = 2
    /\ Len(NewList) = 3
    /\ IsSome(upd.old_data[1]) /\ IsSome(upd.old_data[2])
    /\ NewList[1] = upd.old_list[1]
    /\ ~HasMint(upd.old_list, NewList[2].mint)
    /\ NewList[3] = upd.old_list[2]
    /\ IsSome(lst_data_list[1])
    /\ lst_data_list[2] = None
    /\ lst_data_list[3] = None
    /\ BoundIdentities(lst_data_list) # BoundIdentities(upd.old_data)

----------------------------------------------------------------------------
(* Refresh and quote: a two-asset mirror built by either constructor,        *)
(* refreshed with account maps whose reserves accounts may be missing or    *)
(* fail to parse and whose list may reorder the assets or change a          *)
(* calculator program, and quoted between the refreshes                     *)

ListABOtherCalc == <<LstState("A", "MarinadeCalc", GoodBump), LstState("B", "MarinadeCalc", GoodBump)>>

ReservesSnapshots == {Absent, Malformed, Fetched(MaxBal - 1), Fetched(MaxBal)}

ReadyMaps ==
    {AccountMap(lst, pool, calc, reserves, pricing, Absent) :
        lst \in {Absent, Fetched(ListAB), Fetched(ListBA), Fetched(ListABOtherCalc)},
        pool \in {Absent, Fetched(PoolState("FlatFee", 0))},
        calc \in {NoMintAccounts, [m \in Mints |-> Fetched(<<1, 1>>)]},
        reserves \in {[m \in Mints |-> IF m = "A" THEN a ELSE IF m = "B" THEN b ELSE Absent] :
                        a \in ReservesSnapshots, b \in ReservesSnapshots},
        pricing \in {Fetched("fee_accounts")}}

InitReady ==
    \/ from_lst_state_list_account(ListAB, FullCatalog)
    \/ from_fetched_accounts(ListAB, PoolState("FlatFee", 0), FullCatalog)

UpdateReady == Idle /\ \E am \in ReadyMaps : Update(am)

QuoteReady ==
    /\ Idle
    /\ \E amount \in 1..MaxBal, input_mint \in {"A", "B"}, output_mint \in {"A", "B"},
          priced \in {None, Some(1)} :
            QuoteSwapExactIn(amount, input_mint, output_mint, priced)

NextReady == UpdateReady \/ QuoteReady \/ Return

SpecReady == InitReady /\ [][NextReady]_vars

----------------------------------------------------------------------------
(* Properties of the reserve balances *)

\* no binding has a reserve balance
AllReservesUnset ==
    \A i \in 1..Len(lst_data_list) :
        IsSome(lst_data_list[i]) => Unwrap(lst_data_list[i]).reserves_balance = None

\* the reserve balance of the binding with the given identity
ReservesOf(data_list, id) ==
    LET i == CHOOSE j \in 1..Len(data_list) :
                 IsSome(data_list[j]) /\ identity(Unwrap(data_list[j]).sol_val_calc) = id
    IN  Unwrap(data_list[i]).reserves_balance

\* the mint is on the list, bound, and its binding has a reserve balance
Ready(mint) == ~NotReady(mint)

\* C27: refresh before quote - a freshly constructed mirror has no reserve
\* balance in any binding; a Quote is returned only when the bindings of the
\* input and of the output mint both have one; and the reserve balance of a
\* binding changes (from unset or from another amount) only in an update()
\* whose account map has a reserves account of that mint that parses, to that
\* account's amount: across every other step, reconciliation included, a
\* binding that stays has the balance it had.
C27_RefreshBeforeQuote ==
    /\ AllReservesUnset
    /\ [][/\ (quo'.called /\ IsSome(quo'.quote)) =>
               (Ready(quo'.input_mint) /\ Ready(quo'.output_mint))
          /\ \A id \in BoundIdentities(lst_data_list') :
                /\ id \in BoundIdentities(lst_data_list)
                /\ ReservesOf(lst_data_list', id) # ReservesOf(lst_data_list, id) =>
                      /\ upd'.called
                      /\ Parses(upd'.am.reserves[id[1]])
                      /\ ReservesOf(lst_data_list', id)
                           = Some(Parsed(upd'.am.reserves[id[1]]))]_vars

\* C27 witness: a Quote between two different assets, both with a reserve
\* balance delivered by a refresh
C27_Witness ==
    /\ Quoted
    /\ quo.input_mint # quo.output_mint
    /\ Ready(quo.input_mint) /\ Ready(quo.output_mint)
    /\ ~AllReservesUnset

\* C27 witness of the carried balance: a refresh whose list swaps the two
\* assets and whose reserves accounts do not parse leaves each binding, with
\* the balance it had, at its asset's new index
C27_WitnessCarried ==
    /\ ListRefreshed
    /\ upd.old_list = ListAB /\ NewList = ListBA
    /\ upd.am.reserves["A"] = Malformed /\ upd.am.reserves["B"] = Malformed
    /\ IsSome(upd.old_data[1]) /\ IsSome(upd.old_data[2])
    /\ IsSome(Unwrap(upd.old_data[1]).reserves_balance)
    /\ IsSome(Unwrap(upd.old_data[2]).reserves_balance)
    /\ lst_data_list = <<upd.old_data[2], upd.old_data[1]>>

\* C27 witness of the missing refresh: a quote on a mirror whose output asset
\* never had a reserves snapshot fails
C27_WitnessNotReady ==
    /\ quo.called
    /\ quo.quote = None
    /\ IsSome(pool_state_account) /\ IsSome(pricing_prog)
    /\ Ready(quo.input_mint)
    /\ HasMint(lst_state_list_account, quo.output_mint)
    /\ IsSome(lst_data_list[IndexOfMint(lst_state_list_account, quo.output_mint)])
    /\ NotReady(quo.output_mint)

====
